---- MODULE Spec2Model ----
(***************************************************************************)
(* Partial hydration of a mobx-state-tree store from an untrusted          *)
(* snapshot (src/src/hydration/hydrate-store.ts).                          *)
(*                                                                         *)
(* Documents (snapshots) are tagged values:                                *)
(*   [t |-> "string" | "number" | "boolean", v |-> payload]                *)
(*   [t |-> "null"], [t |-> "undefined"]                                   *)
(*   [t |-> "object", f |-> function from keys to documents]               *)
(*   [t |-> "array",  s |-> sequence of documents]                         *)
(* JSON pointers are real strings ("/todos/2/done"); path segments are     *)
(* sequences of strings whose first element is the root segment "".        *)
(***************************************************************************)
EXTENDS Integers, Sequences, FiniteSets, TLC

(***************************************************************************)
(* Document constructors                                                   *)
(***************************************************************************)
Str(x) == [t |-> "string", v |-> x]
Num(x) == [t |-> "number", v |-> x]
Bool(x) == [t |-> "boolean", v |-> x]
Null == [t |-> "null"]
Undef == [t |-> "undefined"]
Obj(fn) == [t |-> "object", f |-> fn]
Arr(sq) == [t |-> "array", s |-> sq]
EmptyObj == Obj([k \in {} |-> Null])
\* The TypeError thrown by @hyperjump/json-pointer when a pointer walks
\* through undefined, null or a scalar.
TypeError == [t |-> "TypeError"]

isPlainObject(value) == value.t = "object"
isArray(value) == value.t = "array"
\* isScalar of @hyperjump/json-pointer: null or typeof value !== "object"
isScalar(value) == value.t \notin {"object", "array"}

\* Enumeration order of the keys of a JS object: integer-like keys in
\* ascending numeric order, then the other keys.
KeyOrder ==
  <<"0", "1", "2", "3", "12",
    "name", "title", "address", "profile", "features", "additionalAddresses",
    "favorites", "todos", "street", "state", "country", "firstName", "lastName", "slug",
    "postname", "text", "note">>

ObjectKeys(value) == SelectSeq(KeyOrder, LAMBDA k : k \in DOMAIN value.f)

RECURSIVE SeqToSet(_)
SeqToSet(sq) == IF sq = <<>> THEN {} ELSE {Head(sq)} \cup SeqToSet(Tail(sq))

RECURSIVE Flatten(_)
\* flattenTypeErrors: concatenation of a sequence of error lists
Flatten(lists) ==
  IF lists = <<>> THEN <<>> ELSE Head(lists) \o Flatten(Tail(lists))

(***************************************************************************)
(* Strings: join, split, startsWith                                        *)
(***************************************************************************)
RECURSIVE Join(_)
\* Array.prototype.join('/')
Join(segments) ==
  IF segments = <<>> THEN ""
  ELSE IF Len(segments) = 1 THEN segments[1]
  ELSE segments[1] \o "/" \o Join(Tail(segments))

RECURSIVE SplitFrom(_, _, _)
SplitFrom(str, from, pos) ==
  IF pos > Len(str) THEN <<SubSeq(str, from, Len(str))>>
  ELSE IF SubSeq(str, pos, pos) = "/"
       THEN <<SubSeq(str, from, pos - 1)>> \o SplitFrom(str, pos + 1, pos + 1)
       ELSE SplitFrom(str, from, pos + 1)

\* String.prototype.split('/')
Split(str) == SplitFrom(str, 1, 1)

\* String.prototype.startsWith
startsWith(str, prefix) ==
  Len(prefix) <= Len(str) /\ SubSeq(str, 1, Len(prefix)) = prefix

\* Largest array index the model converts between number and string.
MaxIndex == 12

\* Number(segment) for a canonical array index, -1 for any other string
ToIndex(segment) ==
  IF \E i \in 0..MaxIndex : ToString(i) = segment
  THEN CHOOSE i \in 0..MaxIndex : ToString(i) = segment
  ELSE -1

(***************************************************************************)
(* @hyperjump/json-pointer: compile, get, assign, remove                   *)
(***************************************************************************)
\* compile(pointer) = pointer.split("/").slice(1)
compile(pointer) == Tail(Split(pointer))

\* applySegment: throws on undefined, null and scalars, otherwise reads the
\* property (undefined when the object or array has no such property)
applySegment(value, segment) ==
  IF value = TypeError \/ isScalar(value) THEN TypeError
  ELSE IF isArray(value)
       THEN IF ToIndex(segment) >= 0 /\ ToIndex(segment) < Len(value.s)
            THEN value.s[ToIndex(segment) + 1] ELSE Undef
       ELSE IF segment \in DOMAIN value.f THEN value.f[segment] ELSE Undef

RECURSIVE getPtr(_, _)
getPtr(ptr, value) ==
  IF ptr = <<>> THEN value
  ELSE IF applySegment(value, Head(ptr)) = TypeError THEN TypeError
       ELSE getPtr(Tail(ptr), applySegment(value, Head(ptr)))

\* get(pointer, value)
get(pointer, value) == getPtr(compile(pointer), value)

\* subject[segment] = value on an object or an array (an index past the
\* end leaves undefined holes; a non-index property of an array is not part
\* of its elements)
SetProperty(subject, segment, value) ==
  IF isArray(subject)
  THEN IF ToIndex(segment) < 0 THEN subject
       ELSE Arr([i \in 1..(IF ToIndex(segment) + 1 > Len(subject.s)
                           THEN ToIndex(segment) + 1 ELSE Len(subject.s)) |->
                   IF i = ToIndex(segment) + 1 THEN value
                   ELSE IF i <= Len(subject.s) THEN subject.s[i] ELSE Undef])
  ELSE Obj([k \in (DOMAIN subject.f) \cup {segment} |->
              IF k = segment THEN value ELSE subject.f[k]])

RECURSIVE assignPtr(_, _, _)
\* _assign: mutates subject in place; here the mutated subject is returned
assignPtr(ptr, subject, value) ==
  IF ptr = <<>> THEN subject
  ELSE IF Len(ptr) = 1 /\ ~isScalar(subject)
       THEN SetProperty(subject, ptr[1], value)
       ELSE IF applySegment(subject, Head(ptr)) = TypeError THEN TypeError
       ELSE IF assignPtr(Tail(ptr), applySegment(subject, Head(ptr)), value) = TypeError
            THEN TypeError
            \* the child was mutated in place; an undefined child that is
            \* no property of subject throws before anything is written
            ELSE SetProperty(subject, Head(ptr),
                   assignPtr(Tail(ptr), applySegment(subject, Head(ptr)), value))

\* assign(pointer, subject, value)
assign(pointer, subject, value) == assignPtr(compile(pointer), subject, value)

\* subject.splice(index, 1): a non-numeric index is NaN, which splice
\* treats as 0
Splice(sq, segment) ==
  LET at == IF ToIndex(segment) < 0 THEN 1 ELSE ToIndex(segment) + 1
  IN  IF at > Len(sq) THEN sq
      ELSE SubSeq(sq, 1, at - 1) \o SubSeq(sq, at + 1, Len(sq))

\* delete subject[segment]
DeleteProperty(subject, segment) ==
  Obj([k \in (DOMAIN subject.f) \ {segment} |-> subject.f[k]])

RECURSIVE removePtr(_, _)
\* _remove: mutates subject in place; here the mutated subject is returned
removePtr(ptr, subject) ==
  IF ptr = <<>> THEN subject
  ELSE IF Len(ptr) > 1
       THEN IF applySegment(subject, Head(ptr)) = TypeError THEN TypeError
            ELSE IF removePtr(Tail(ptr), applySegment(subject, Head(ptr))) = TypeError
                 THEN TypeError
                 ELSE SetProperty(subject, Head(ptr),
                        removePtr(Tail(ptr), applySegment(subject, Head(ptr))))
       ELSE IF isArray(subject) THEN Arr(Splice(subject.s, ptr[1]))
       ELSE IF isPlainObject(subject) THEN DeleteProperty(subject, ptr[1])
       ELSE TypeError

\* variant: remove leaves the subject as it was
removeNothing(pointer, subject) == subject
\* remove(pointer, subject)
remove(pointer, subject) == removePtr(compile(pointer), subject)

(***************************************************************************)
(* mobx-state-tree types, as used by the store model of the tests          *)
(***************************************************************************)
CoreType(name) == [kind |-> name]
Literal(value) == [kind |-> "literal", value |-> value]
OptionalValue(subtype, defaultValue) ==
  [kind |-> "optional", subtype |-> subtype, defaultValue |-> defaultValue]
Union(types) == [kind |-> "union", types |-> types]
\* types.union({ dispatcher }, ...types): the dispatcher names the alternative
\* of a value, no other alternative is tried
DispatchedUnion(types) == [kind |-> "dispatched", types |-> types]
\* the dispatcher of the unions below, (snapshot) => snapshot === null ?
\* the last alternative : the first
dispatcher(types, value) == IF value = Null THEN types[Len(types)] ELSE types[1]
ArrayType(subType) == [kind |-> "array", subType |-> subType]
MapType(subType) == [kind |-> "map", subType |-> subType]
ModelType(name, propertyNames, properties) ==
  [kind |-> "model", name |-> name, propertyNames |-> propertyNames,
   properties |-> properties]

\* types.maybeNull(type) = union(type, optional(nullType, null))
maybeNull(type) == Union(<<type, OptionalValue(Literal(Null), Null)>>)
\* variant: types.maybe falling back to null instead of undefined, a value
\* its own union rejects
maybeDefaultingToNull(type) == Union(<<type, OptionalValue(Literal(Undef), Null)>>)
\* types.maybe(type) = union(type, optional(undefinedType, undefined))
maybe(type) == Union(<<type, OptionalValue(Literal(Undef), Undef)>>)
\* a model property declared as types.array / types.map is made optional
\* with an empty default
array(subType) == OptionalValue(ArrayType(subType), Arr(<<>>))
map(subType) == OptionalValue(MapType(subType), EmptyObj)

addressModel ==
  ModelType("TestAddressModel", <<"street", "state", "country">>,
    [street |-> CoreType("string"), state |-> maybeNull(CoreType("string")),
     country |-> CoreType("string")])

profileModel ==
  ModelType("TestProfileModel", <<"firstName", "lastName">>,
    [firstName |-> CoreType("string"), lastName |-> CoreType("string")])

favoritesModel ==
  ModelType("TestFavoritesModel", <<"slug", "postname">>,
    [slug |-> CoreType("string"), postname |-> CoreType("string")])

todoModel ==
  ModelType("TestTodoModel", <<"text", "note">>,
    [text |-> CoreType("string"), note |-> maybeNull(CoreType("string"))])

testStoreModel ==
  ModelType("TestStore",
    <<"name", "title", "address", "additionalAddresses", "profile",
      "features", "favorites", "todos">>,
    [name |-> CoreType("string"),
     title |-> maybeNull(CoreType("string")),
     address |-> maybeNull(addressModel),
     additionalAddresses |-> maybe(ArrayType(addressModel)),
     profile |-> profileModel,
     features |-> array(CoreType("string")),
     favorites |-> array(favoritesModel),
     todos |-> map(todoModel)])

RECURSIVE Flags(_)
RECURSIVE UnionFlags(_)
\* type.flags: an optional type carries the flags of its subtype, a union
\* those of all its alternatives
Flags(type) ==
  CASE type.kind = "optional" -> Flags(type.subtype) \cup {"Optional"}
    [] type.kind = "union" -> UnionFlags(type.types) \cup {"Union"}
    [] type.kind = "dispatched" -> UnionFlags(type.types) \cup {"Union"}
    [] type.kind = "array" -> {"Array"}
    [] type.kind = "map" -> {"Map"}
    [] type.kind = "model" -> {"Object"}
    [] type.kind = "literal" -> {"Literal"}
    [] OTHER -> {type.kind}
UnionFlags(types) ==
  IF types = <<>> THEN {} ELSE Flags(Head(types)) \cup UnionFlags(Tail(types))

isOptionalType(type) == "Optional" \in Flags(type)
isArrayType(type) == "Array" \in Flags(type)
isMapType(type) == "Map" \in Flags(type)

\* typeCheckFailure(context, value, message)
typeCheckFailure(context) == <<[context |-> context]>>
\* getContextForPath(context, path, type)
getContextForPath(context, path, type) ==
  Append(context, [path |-> path, type |-> type])

RECURSIVE validate(_, _, _)
RECURSIVE validateEach(_, _, _, _)
RECURSIVE validateUnion(_, _, _)
\* type.validate(value, context): the list of validation errors
validate(type, value, context) ==
  CASE type.kind = "optional" ->
         IF value = Undef THEN <<>> ELSE validate(type.subtype, value, context)
    [] type.kind = "union" ->
         IF \E i \in 1..Len(type.types) : validate(type.types[i], value, context) = <<>>
         THEN <<>>
         ELSE typeCheckFailure(context) \o validateUnion(type.types, value, context)
    [] type.kind = "dispatched" ->
         validate(dispatcher(type.types, value), value, context)
    [] type.kind = "literal" ->
         IF value = type.value THEN <<>> ELSE typeCheckFailure(context)
    [] type.kind = "array" ->
         IF ~isArray(value) THEN typeCheckFailure(context)
         ELSE validateEach(type, value, context, 1)
    [] type.kind = "map" ->
         IF ~isPlainObject(value) THEN typeCheckFailure(context)
         ELSE validateEach(type, value, context, 1)
    [] type.kind = "model" ->
         IF ~isPlainObject(value) THEN typeCheckFailure(context)
         ELSE validateEach(type, value, context, 1)
    [] OTHER ->
         IF value.t = type.kind THEN <<>> ELSE typeCheckFailure(context)
\* the errors of the i-th and later children, in the order the type visits
\* them: array items by index, map entries by key, model properties by
\* declaration (a missing property is validated as undefined)
validateEach(type, value, context, i) ==
  CASE type.kind = "array" ->
         IF i > Len(value.s) THEN <<>>
         ELSE validate(type.subType, value.s[i],
                getContextForPath(context, ToString(i - 1), type.subType))
              \o validateEach(type, value, context, i + 1)
    [] type.kind = "map" ->
         IF i > Len(ObjectKeys(value)) THEN <<>>
         ELSE validate(type.subType, value.f[ObjectKeys(value)[i]],
                getContextForPath(context, ObjectKeys(value)[i], type.subType))
              \o validateEach(type, value, context, i + 1)
    [] OTHER ->
         IF i > Len(type.propertyNames) THEN <<>>
         ELSE validate(type.properties[type.propertyNames[i]],
                IF type.propertyNames[i] \in DOMAIN value.f
                THEN value.f[type.propertyNames[i]] ELSE Undef,
                getContextForPath(context, type.propertyNames[i],
                  type.properties[type.propertyNames[i]]))
              \o validateEach(type, value, context, i + 1)
validateUnion(types, value, context) ==
  IF types = <<>> THEN <<>>
  ELSE validate(Head(types), value, context) \o validateUnion(Tail(types), value, context)

\* type.is(value)
is(type, value) == validate(type, value, <<[path |-> "", type |-> type]>>) = <<>>

RECURSIVE determineType(_, _, _)
\* Union.determineType: the first alternative the value is assignable to
determineType(types, value, i) ==
  IF is(types[i], value) \/ i = Len(types) THEN types[i]
  ELSE determineType(types, value, i + 1)

RECURSIVE getSnapshot(_, _)
\* The snapshot of the node that a type instantiates from a valid input
\* snapshot: optional values replace undefined by their default, models
\* keep exactly their declared properties.  (A value that is no array or
\* plain object where one is expected is left as it is.)
getSnapshot(type, value) ==
  CASE type.kind = "optional" ->
         IF value = Undef THEN getSnapshot(type.subtype, type.defaultValue)
         ELSE getSnapshot(type.subtype, value)
    [] type.kind = "union" -> getSnapshot(determineType(type.types, value, 1), value)
    [] type.kind = "dispatched" -> getSnapshot(dispatcher(type.types, value), value)
    [] type.kind = "array" /\ isArray(value) ->
         Arr([i \in 1..Len(value.s) |-> getSnapshot(type.subType, value.s[i])])
    [] type.kind = "map" /\ isPlainObject(value) ->
         Obj([k \in DOMAIN value.f |-> getSnapshot(type.subType, value.f[k])])
    [] type.kind = "model" /\ isPlainObject(value) ->
         Obj([k \in SeqToSet(type.propertyNames) |->
                getSnapshot(type.properties[k],
                  IF k \in DOMAIN value.f THEN value.f[k] ELSE Undef)])
    [] OTHER -> value

\* createDefaultValue(type): type.create() and, for a tree node, its snapshot
createDefaultValue(type) == getSnapshot(type, Undef)

RECURSIVE JSONClone(_)
\* JSON.parse(JSON.stringify(value)): undefined properties are dropped,
\* undefined array items become null
JSONClone(value) ==
  CASE isArray(value) ->
         Arr([i \in 1..Len(value.s) |->
                IF value.s[i] = Undef THEN Null ELSE JSONClone(value.s[i])])
    [] isPlainObject(value) ->
         Obj([k \in {j \in DOMAIN value.f : value.f[j] # Undef} |->
                JSONClone(value.f[k])])
    [] OTHER -> value

(***************************************************************************)
(* deepObjectOverride                                                      *)
(***************************************************************************)
\* JavaScript truthiness of a document
Truthy(value) ==
  CASE value.t \in {"null", "undefined"} -> FALSE
    [] value.t = "string" -> value.v # ""
    [] value.t = "number" -> value.v # "0"
    [] value.t = "boolean" -> value.v # "false"
    [] OTHER -> TRUE

\* isObjectLike(value): an object that is neither null nor an array
isObjectLike(value) == isPlainObject(value)

\* { ...value }: the own enumerable properties of a value as a new object;
\* an array gives its indices, a string its characters, other scalars nothing
Spread(value) ==
  CASE isPlainObject(value) -> value
    [] isArray(value) ->
         Obj([k \in {ToString(i - 1) : i \in 1..Len(value.s)} |->
                value.s[CHOOSE i \in 1..Len(value.s) : ToString(i - 1) = k]])
    [] value.t = "string" ->
         Obj([k \in {ToString(i - 1) : i \in 1..Len(value.v)} |->
                Str(LET i == CHOOSE j \in 1..Len(value.v) : ToString(j - 1) = k
                    IN  SubSeq(value.v, i, i))])
    [] OTHER -> EmptyObj
\* Object.keys(value), as a set
OwnKeys(value) == DOMAIN Spread(value).f
\* value[key]: undefined when the value has no such property
ReadProperty(value, key) ==
  IF key \in OwnKeys(value) THEN Spread(value).f[key] ELSE Undef

\* variant: an object override always replaces the original value
overrideShallow(original, overrides) ==
  IF ~Truthy(overrides) THEN original
  ELSE Obj([key \in OwnKeys(original) |->
              IF /\ key \in OwnKeys(overrides)
                 /\ ReadProperty(original, key) # Undef
                 /\ ReadProperty(overrides, key) # Undef
              THEN ReadProperty(overrides, key)
              ELSE ReadProperty(original, key)])

RECURSIVE deepObjectOverride(_, _)
\* deepObjectOverride(original, overrides)
deepObjectOverride(original, overrides) ==
  IF ~Truthy(overrides) THEN original
  ELSE Obj([key \in OwnKeys(original) |->
              LET originalValue == ReadProperty(original, key)
                  overrideValue == ReadProperty(overrides, key)
              IN  IF /\ key \in OwnKeys(overrides)
                     /\ originalValue # Undef
                     /\ overrideValue # Undef
                  THEN IF isObjectLike(originalValue) /\ isObjectLike(overrideValue)
                       THEN IF OwnKeys(overrideValue) = {}
                            THEN overrideValue
                            ELSE deepObjectOverride(originalValue, overrideValue)
                       ELSE overrideValue
                  ELSE originalValue])

\* variant: undefined items are removed from the outermost list only
removeEmptyItems(obj) ==
  IF isArray(obj) THEN Arr(SelectSeq(obj.s, LAMBDA item : item # Undef)) ELSE obj
RECURSIVE removeEmptyItemsRecursively(_)
removeEmptyItemsRecursively(obj) ==
  CASE isArray(obj) ->
         Arr(SelectSeq([i \in 1..Len(obj.s) |-> removeEmptyItemsRecursively(obj.s[i])],
                       LAMBDA item : item # Undef))
    [] isPlainObject(obj) ->
         Obj([k \in DOMAIN obj.f |-> removeEmptyItemsRecursively(obj.f[k])])
    [] OTHER -> obj

(***************************************************************************)
(* Validation errors, the error tree and its traversal                     *)
(***************************************************************************)
\* transformErrorsToObjects, for one error
PathObject(error) ==
  LET pathSegments == [i \in 1..Len(error.context) |-> error.context[i].path]
  IN  [path |-> Join(pathSegments),
       pathSegments |-> pathSegments,
       type |-> error.context[Len(error.context)].type,
       isNested |-> Len(pathSegments) > 2]

transformErrorsToObjects(errors) ==
  [i \in 1..Len(errors) |-> PathObject(errors[i])]

\* A TreeNode: value is a PathObject or Null; keys is the insertion order of
\* the Map nodes
EmptyNode == [value |-> Null, keys |-> <<>>, nodes |-> [k \in {} |-> Null]]

RECURSIVE TreeInsert(_, _, _)
\* walk / create the nodes of segments[1..] below node and store pathObj at
\* the last one
TreeInsert(node, segments, pathObj) ==
  IF segments = <<>> THEN [node EXCEPT !.value = pathObj]
  ELSE LET segment == Head(segments)
           nextNode == IF segment \in DOMAIN node.nodes
                       THEN node.nodes[segment] ELSE EmptyNode
       IN  [node EXCEPT
              !.keys = IF segment \in DOMAIN node.nodes THEN @ ELSE Append(@, segment),
              !.nodes = [k \in (DOMAIN @) \cup {segment} |->
                           IF k = segment
                           THEN TreeInsert(nextNode, Tail(segments), pathObj)
                           ELSE @[k]]]

RECURSIVE buildTreeFrom(_, _)
buildTreeFrom(tree, paths) ==
  IF paths = <<>> THEN tree
  ELSE buildTreeFrom(TreeInsert(tree, Tail(Head(paths).pathSegments), Head(paths)),
                     Tail(paths))

\* the sequence in reverse
Reverse(sq) == [i \in 1..Len(sq) |-> sq[Len(sq) + 1 - i]]

\* variant: of the reports of one path the first is the one the node keeps
buildTreeKeepingFirst(paths) == buildTreeFrom(EmptyNode, Reverse(paths))
buildTree(paths) == buildTreeFrom(EmptyNode, paths)

RECURSIVE parentFirstTraversal(_)
RECURSIVE ParentFirstKeys(_, _)
\* variant: the callback is invoked on a node before its children are visited
parentFirstTraversal(tree) ==
  (IF tree.value # Null THEN <<tree.value>> ELSE <<>>)
  \o ParentFirstKeys(tree, Len(tree.keys))
ParentFirstKeys(tree, i) ==
  IF i = 0 THEN <<>>
  ELSE parentFirstTraversal(tree.nodes[tree.keys[i]]) \o ParentFirstKeys(tree, i - 1)

RECURSIVE reverseDepthFirstTraversal(_)
RECURSIVE TraverseKeys(_, _)
\* the PathObjects in the order in which the callback is invoked on them
reverseDepthFirstTraversal(tree) ==
  TraverseKeys(tree, Len(tree.keys))
  \o (IF tree.value # Null THEN <<tree.value>> ELSE <<>>)
TraverseKeys(tree, i) ==
  IF i = 0 THEN <<>>
  ELSE reverseDepthFirstTraversal(tree.nodes[tree.keys[i]]) \o TraverseKeys(tree, i - 1)

RECURSIVE NodeAt(_, _)
\* the tree node at a position (the segments below the root), or Undef
NodeAt(tree, position) ==
  IF position = <<>> THEN tree
  ELSE IF Head(position) \in DOMAIN tree.nodes
       THEN NodeAt(tree.nodes[Head(position)], Tail(position))
       ELSE Undef

\* findParent(node, tree): the position of the node whose Map holds the
\* node at a position below the root (the root itself has no parent)
findParent(position) == SubSeq(position, 1, Len(position) - 1)

RECURSIVE NearestParentLoop(_, _, _)
NearestParentLoop(position, childPath, tree) ==
  IF position = <<>> THEN Null
  ELSE IF NodeAt(tree, findParent(position)).value # Null
       THEN [nearestParentPath |-> NodeAt(tree, findParent(position)).value.path,
             childPath |-> childPath,
             type |-> NodeAt(tree, findParent(position)).value.type]
       ELSE NearestParentLoop(findParent(position),
              Join(SubSeq(Split(childPath), 1, Len(Split(childPath)) - 1)), tree)

\* variant: no ancestor of the tree is ever taken as the nearest parent
findNoParentWithValue(pathObj, tree) == Null
\* findNearestParentWithValue(node, tree); node is given by its PathObject
findNearestParentWithValue(pathObj, tree) ==
  NearestParentLoop(Tail(pathObj.pathSegments), pathObj.path, tree)

(***************************************************************************)
(* Resolving a path in the live store                                      *)
(***************************************************************************)
RECURSIVE resolveType(_, _)
\* the type of the node that holds a value of a declared type
resolveType(type, value) ==
  CASE type.kind = "optional" -> resolveType(type.subtype, value)
    [] type.kind = "union" -> resolveType(determineType(type.types, value, 1), value)
    [] type.kind = "dispatched" -> resolveType(dispatcher(type.types, value), value)
    [] OTHER -> type

\* the declared type of a child of an object node
getChildType(type, part) ==
  CASE type.kind = "model" ->
         IF part \in SeqToSet(type.propertyNames) THEN type.properties[part] ELSE Undef
    [] OTHER -> type.subType

RECURSIVE resolveNodeByPathParts(_, _, _)
\* the node [type, value] reached from an object node, or Undef
resolveNodeByPathParts(type, value, parts) ==
  IF parts = <<>> THEN [type |-> type, value |-> value]
  ELSE IF isScalar(value) THEN Undef
  ELSE IF getChildType(type, Head(parts)) = Undef THEN Undef
  ELSE IF applySegment(value, Head(parts)) = Undef
          /\ ~(isPlainObject(value) /\ Head(parts) \in DOMAIN value.f)
       THEN Undef
  ELSE resolveNodeByPathParts(
         resolveType(getChildType(type, Head(parts)), applySegment(value, Head(parts))),
         applySegment(value, Head(parts)), Tail(parts))

\* tryResolve(store, path): the node's value, or Undef when the path
\* resolves to nothing
tryResolve(model, storeDoc, path) ==
  resolveNodeByPathParts(model, storeDoc, Tail(Split(path)))

\* getType(node) raises on anything that is not a tree node
MstError == [t |-> "MstError"]

RECURSIVE ResolveLoop(_, _, _, _, _)
\* the for loop of tryResolveNearestExistingParent, from index i down
ResolveLoop(model, storeDoc, pathSegments, childPath, i) ==
  IF i <= 0 THEN Null
  ELSE LET path == Join(SubSeq(pathSegments, 1, i))
           node == tryResolve(model, storeDoc, path)
       IN  IF path = "" THEN Null
           ELSE IF node # Undef /\ Truthy(node.value)
                THEN IF isScalar(node.value) THEN MstError
                     ELSE [nearestParentPath |-> path, childPath |-> childPath,
                           type |-> node.type]
                ELSE ResolveLoop(model, storeDoc, pathSegments, path, i - 1)

\* variant: the nearest parent is looked for in the tree only, never in
\* the live store
tryResolveWithoutStore(model, storeDoc, pathObj, tree) ==
  findNearestParentWithValue(pathObj, tree)
\* tryResolveNearestExistingParent(store, pathSegments, path, node, tree)
tryResolveNearestExistingParent(model, storeDoc, pathObj, tree) ==
  IF findNearestParentWithValue(pathObj, tree) # Null
  THEN findNearestParentWithValue(pathObj, tree)
  ELSE ResolveLoop(model, storeDoc, pathObj.pathSegments, pathObj.path,
                   Len(pathObj.pathSegments) - 1)

(***************************************************************************)
(* hydrateStore                                                            *)
(***************************************************************************)
\* variant: the set is searched for a path that the given one starts with
checkSetForAncestor(haystack, prefix) ==
  \E item \in haystack : startsWith(prefix, item)
\* checkSetForPrefix / Array.from(processedPaths).some(p => p.startsWith(prefix))
checkSetForPrefix(haystack, prefix) ==
  \E item \in haystack : startsWith(item, prefix)

\* the outcome of one repair step: the working copy, the processed paths
\* and what the step threw, if anything
Outcome(newSnap, processed) ==
  [newSnapshot |-> newSnap, processedPaths |-> processed, thrown |-> "none"]
Thrown(newSnap, processed, what) ==
  [newSnapshot |-> newSnap, processedPaths |-> processed, thrown |-> what]
\* an assign / remove result that may be the TypeError
Mutated(result, newSnap, processed) ==
  IF result = TypeError THEN Thrown(newSnap, processed, "TypeError")
  ELSE Outcome(result, processed)

\* the callback's branch for a nested path of a type that is not optional
NestedRepair(model, storeDoc, storeSnap, tree, error, newSnap, processed) ==
  LET nearestParent == tryResolveNearestExistingParent(model, storeDoc, error, tree)
  IN  IF nearestParent = MstError
      THEN Thrown(newSnap, processed, "MstError")
      ELSE IF nearestParent # Null
      THEN IF isMapType(nearestParent.type) \/ isArrayType(nearestParent.type)
           THEN Mutated(remove(nearestParent.childPath, newSnap), newSnap,
                  processed \cup {nearestParent.childPath, error.path})
           ELSE IF isOptionalType(nearestParent.type)
           THEN Mutated(assign(nearestParent.nearestParentPath, newSnap,
                          createDefaultValue(nearestParent.type)),
                  newSnap,
                  processed \cup {nearestParent.nearestParentPath,
                                  nearestParent.childPath, error.path})
           ELSE IF get(nearestParent.nearestParentPath, storeSnap) = TypeError
           THEN Thrown(newSnap, processed, "TypeError")
           ELSE Mutated(assign(nearestParent.nearestParentPath, newSnap,
                          get(nearestParent.nearestParentPath, storeSnap)),
                  newSnap,
                  processed \cup {nearestParent.nearestParentPath,
                                  nearestParent.childPath, error.path})
      ELSE Mutated(remove(error.path, newSnap), newSnap, processed \cup {error.path})

\* variant: a root path is always given the default value of its type
RootRepairByDefault(storeSnap, error, newSnap, processed) ==
  Mutated(assign(error.path, newSnap, createDefaultValue(error.type)),
          newSnap, processed \cup {error.path})
\* variant: a root path is always given the store's value
RootRepairFromStore(storeSnap, error, newSnap, processed) ==
  IF get(error.path, storeSnap) = TypeError
  THEN Thrown(newSnap, processed, "TypeError")
  ELSE Mutated(assign(error.path, newSnap, get(error.path, storeSnap)),
               newSnap, processed \cup {error.path})
\* the callback's branch for a path that is not nested
RootRepair(storeSnap, error, newSnap, processed) ==
  IF isOptionalType(error.type)
  THEN Mutated(assign(error.path, newSnap, createDefaultValue(error.type)),
               newSnap, processed \cup {error.path})
  ELSE IF get(error.path, storeSnap) = TypeError
  THEN Thrown(newSnap, processed, "TypeError")
  ELSE Mutated(assign(error.path, newSnap, get(error.path, storeSnap)),
               newSnap, processed \cup {error.path})

\* the part of the callback after the revalidation check
RepairPath(model, storeDoc, storeSnap, tree, error, newSnap, processed) ==
  IF error.isNested
  THEN IF isOptionalType(error.type)
       THEN Mutated(assign(error.path, newSnap, createDefaultValue(error.type)),
                    newSnap, processed \cup {error.path})
       ELSE NestedRepair(model, storeDoc, storeSnap, tree, error, newSnap, processed)
  ELSE RootRepair(storeSnap, error, newSnap, processed)

\* variant: the callback never stops at the revalidation check
NeverRevalidated(error, newSnap, processed) == FALSE
\* whether the callback stops at the revalidation check
Revalidated(error, newSnap, processed) ==
  /\ checkSetForPrefix(processed, error.path)
  /\ get(error.path, newSnap) # TypeError
  /\ validate(error.type, get(error.path, newSnap),
              <<[path |-> "", type |-> error.type]>>) = <<>>

\* the callback given to reverseDepthFirstTraversal, for one error
callback(model, storeDoc, storeSnap, tree, error, newSnap, processed) ==
  IF checkSetForPrefix(processed, error.path) /\ get(error.path, newSnap) = TypeError
  THEN Thrown(newSnap, processed, "TypeError")
  ELSE IF Revalidated(error, newSnap, processed)
  THEN Outcome(newSnap, processed \cup {error.path})
  ELSE RepairPath(model, storeDoc, storeSnap, tree, error, newSnap, processed)

(***************************************************************************)
(* Inputs: live stores and candidate snapshots                             *)
(***************************************************************************)
Address(street, state) ==
  Obj([street |-> street, state |-> state, country |-> Str("USA")])
Profile(firstName, lastName) == Obj([firstName |-> firstName, lastName |-> lastName])
Favorite(slug, postname) == Obj([slug |-> slug, postname |-> postname])
Todo(text, note) == Obj([text |-> text, note |-> note])
Store(name, title, address, additionalAddresses, profile, features, favorites, todos) ==
  Obj([name |-> name, title |-> title, address |-> address,
       additionalAddresses |-> additionalAddresses, profile |-> profile,
       features |-> features, favorites |-> favorites, todos |-> todos])

\* the store right after testStoreModel.create(testInitialState)
testInitialState ==
  Store(Str("John Doe"), Str("Some title"), Null, Undef,
        Profile(Str("John"), Str("Doe")), Arr(<<>>), Arr(<<>>), EmptyObj)

\* a store whose optional record, lists and map are populated
populatedState ==
  Store(Str("John Doe"), Null, Address(Str("1 Live St"), Str("CA")),
        Arr(<<Address(Str("2 Live St"), Null), Address(Str("3 Live St"), Str("CA")),
              Address(Str("4 Live St"), Null)>>),
        Profile(Str("John"), Str("Doe")),
        Arr(<<Str("Live1"), Str("Live2"), Str("Live3")>>),
        Arr(<<Favorite(Str("live-a"), Str("Live A")), Favorite(Str("live-b"), Str("Live B"))>>),
        Obj([k \in {"1", "2"} |-> Todo(Str("Live todo"), Null)]))

\* a store whose collections are shorter and hold a falsy string
sparseState ==
  Store(Str("John Doe"), Str("Some title"), Null,
        Arr(<<Address(Str("2 Live St"), Null)>>),
        Profile(Str("John"), Str("Doe")),
        Arr(<<Str("")>>),
        Arr(<<Favorite(Str("live-a"), Str("Live A"))>>),
        Obj([k \in {"2"} |-> Todo(Str("Live todo"), Str("n"))]))

LiveStores == {testInitialState, populatedState, sparseState}

\* the valid snapshot that candidates are derived from
testSnapshot ==
  Store(Str("Jane Darlene"), Str("Some other title"),
        Address(Str("123 Main St"), Str("NY")),
        Arr(<<Address(Str("456 Elm St"), Str("NY")), Address(Str("789 Oak St"), Null)>>),
        Profile(Str("Jane"), Str("Darlene")),
        Arr(<<Str("One"), Str("Two"), Str("Three")>>),
        Arr(<<Favorite(Str("first"), Str("First post")),
              Favorite(Str("second"), Str("Second post"))>>),
        Obj([k \in {"1", "2"} |->
               IF k = "1" THEN Todo(Str("First todo"), Null)
               ELSE Todo(Str("Second todo"), Str("later"))]))

\* marks a field the candidate does not have
Absent == [t |-> "absent"]

\* the values a candidate may hold at a root field instead of testSnapshot's
Alternatives(key) ==
  CASE key = "name" -> {Absent, Undef, Num("42")}
    [] key = "title" -> {Absent, Null, Num("42")}
    [] key = "address" ->
         {Null, Num("42"),
          Address(Num("123"), Str("NY")),
          Obj([state |-> Str("NY")]),
          Address(Str("5 Ave"), Num("7")),
          Address(Num("123"), Num("7")),
          Obj([street |-> Str("5 Ave"), state |-> Num("7"), country |-> Num("5")]),
          Obj([street |-> Str("5 Ave")])}
    [] key = "additionalAddresses" ->
         {Absent, Null,
          Arr(<<Address(Str("456 Elm St"), Str("NY")), Obj([state |-> Str("NY")]),
                Address(Str("789 Oak St"), Null)>>),
          Arr(<<Address(Num("1"), Null), Address(Str("456 Elm St"), Str("NY")),
                Address(Num("2"), Num("7"))>>),
          Arr(<<Address(Str("456 Elm St"), Str("NY")),
                Address(Str("789 Oak St"), Num("7"))>>),
          Arr(<<Address(Str("456 Elm St"), Str("NY")),
                Obj([street |-> Str("789 Oak St"), state |-> Num("7"),
                     country |-> Num("5")])>>),
          Arr(<<Num("42"), Address(Str("456 Elm St"), Str("NY"))>>)}
    [] key = "profile" ->
         {Absent, Str("Jane"),
          Profile(Num("1"), Str("Darlene")),
          Obj([firstName |-> Str("Jane")]),
          Profile(Num("1"), Num("2"))}
    [] key = "features" ->
         {Absent, Null,
          Arr(<<Str("One"), Num("123"), Str("Three"), Bool("true")>>),
          Arr(<<Num("123"), Str("Two")>>),
          Arr(<<Num("1"), Num("2")>>)}
    [] key = "favorites" ->
         {Null,
          Arr(<<Favorite(Str("first"), Str("First post")), Obj([slug |-> Str("second")]),
                Favorite(Str("third"), Str("Third post"))>>),
          Arr(<<Favorite(Num("1"), Num("2")), Favorite(Str("first"), Str("First post"))>>)}
    [] OTHER ->
         {Absent, Null,
          Obj([k \in {"1", "2", "3"} |->
                 IF k = "2" THEN Todo(Num("123"), Null)
                 ELSE Todo(Str("First"), Null)]),
          Obj([k \in {"1", "12"} |->
                 IF k = "1" THEN Obj([note |-> Str("n")])
                 ELSE Todo(Str("Twelfth"), Null)]),
          Obj([k \in {"1", "2"} |->
                 IF k = "2" THEN Todo(Str("Second"), Num("7"))
                 ELSE Todo(Str("First"), Null)]),
          Obj([k \in {"1", "2"} |-> Todo(Num("1"), Str("n"))]),
          Obj([k \in {"2", "3"} |->
                 IF k = "2" THEN Str("todo") ELSE Todo(Str("Third"), Null)])}

\* How many root fields of a candidate differ from testSnapshot.
MaxDefects == 2

RootKeys == SeqToSet(testStoreModel.propertyNames)

\* testSnapshot with the chosen alternatives at the fields in DOMAIN choice
Candidate(choice) ==
  Obj([k \in {j \in RootKeys : j \notin DOMAIN choice \/ choice[j] # Absent} |->
         IF k \in DOMAIN choice THEN choice[k] ELSE testSnapshot.f[k]])

RECURSIVE ChoicesFrom(_, _)
\* the choices of alternatives for at most n of the root fields i, i+1, ...
ChoicesFrom(i, n) ==
  IF i > Len(testStoreModel.propertyNames) THEN {[k \in {} |-> Absent]}
  ELSE ChoicesFrom(i + 1, n)
       \cup (IF n = 0 THEN {}
             ELSE {[k \in (DOMAIN c) \cup {testStoreModel.propertyNames[i]} |->
                      IF k = testStoreModel.propertyNames[i] THEN a ELSE c[k]] :
                     a \in Alternatives(testStoreModel.propertyNames[i]),
                     c \in ChoicesFrom(i + 1, n - 1)})

\* candidates that are no plain object: what storage.getItem may resolve to
\* when the stored item is not a snapshot of the store
NonObjectCandidates == {Null, Num("42"), Str("{}"), Bool("true"), Arr(<<>>)}

Candidates ==
  {Candidate(choice) : choice \in ChoicesFrom(1, MaxDefects)} \cup NonObjectCandidates

(***************************************************************************)
(* State                                                                   *)
(***************************************************************************)
VARIABLES
  store,          \* the snapshot of the live store instance
  pc,             \* "idle", "repair" (inside the catch block), "returned", "raised"
  snapshot,       \* hydrateStore's snapshot argument
  storeBefore,    \* the store's snapshot when hydrateStore was called
  storeSnapshot,  \* const storeSnapshot
  tree,           \* const tree
  pending,        \* the errors the traversal has not visited yet, in order
  newSnapshot,    \* const newSnapshot, the working copy
  ownCopy,        \* whether newSnapshot is an object of its own, apart from snapshot
  processedPaths, \* const processedPaths
  applied,        \* applySnapshot calls made by the current hydrateStore call
  validated,      \* whether the current call ran model.validate
  caught,         \* the error the current call's catch block was given, if any
  thrown,         \* what the current call raised: "none", "TypeError", "MstError"
  calls,          \* hydrateStore calls made so far
  outcomes        \* how each finished call ended: "full", "partial", "raised"

\* the variables of hydrateStore
hvars ==
  <<store, pc, snapshot, storeBefore, storeSnapshot, tree, pending, newSnapshot,
    ownCopy, processedPaths, applied, validated, caught, thrown,
    calls, outcomes>>

VARIABLES
  original,       \* deepObjectOverride's original argument
  overrides,      \* deepObjectOverride's overrides argument
  overridden      \* what the call of deepObjectOverride returned

\* the variables of a call of deepObjectOverride on its own
ovars == <<original, overrides, overridden>>

VARIABLES
  ppc,            \* where the provider's effect stands
  mounted,        \* what isMounted() returns
  listening,      \* the onSnapshot listener is registered and not disposed
  storageItem,    \* what storage holds under storageKey (null: nothing)
  data,           \* what getItem resolved to
  disallowList,   \* createPersistentStore's disallowList argument
  hydration,      \* how the hydration attempt ended, "pending" until it has
  removed,        \* removeItem has resolved
  onHydrateCalls, \* the calls of onHydrate, each with what had happened by then
  now,            \* the clock, in milliseconds
  timeoutId,      \* debounce's timer: its deadline and the arguments of doLater
  emitted,        \* the snapshots onSnapshot has delivered, with their times
                  \* and whether the provider was mounted then
  setItems,       \* the calls of storage.setItem, with their times
  logged          \* what the provider's logger was given about the hydration

\* the variables of the provider
pvars ==
  <<ppc, mounted, listening, storageItem, data, disallowList, hydration, removed,
    onHydrateCalls, now, timeoutId, emitted, setItems, logged>>

VARIABLES
  fn,             \* the helper of hydrateStore that is called on its own
  arg,            \* its argument
  output          \* what it returned

\* the variables of a call of one of hydrateStore's helpers on its own
uvars == <<fn, arg, output>>

vars == <<hvars, ovars, pvars, uvars>>

\* no helper is called on its own
NoCall == fn = "none" /\ arg = Undef /\ output = Undef

\* timeoutId === undefined
NoTimer == [set |-> FALSE]

\* createPersistentStore has not been called
NoProvider ==
  /\ ppc = "none"
  /\ mounted = FALSE
  /\ listening = FALSE
  /\ storageItem = Null
  /\ data = Undef
  /\ disallowList = Undef
  /\ hydration = "pending"
  /\ removed = FALSE
  /\ onHydrateCalls = <<>>
  /\ now = 0
  /\ timeoutId = NoTimer
  /\ emitted = <<>>
  /\ setItems = <<>>
  /\ logged = <<>>

\* no call of deepObjectOverride is under way
NotCalled == [t |-> "not called"]
NoOverride == original = Undef /\ overrides = Undef /\ overridden = NotCalled

\* How many times hydrateStore is called in one behaviour.
MaxCalls == 2

RootContext == <<[path |-> "", type |-> testStoreModel]>>

\* variant: applySnapshot without the type check
CanApplyUnchecked(snap) == TRUE
\* applySnapshot type-checks the whole snapshot before it changes the store
CanApply(snap) == validate(testStoreModel, snap, RootContext) = <<>>

\* variant: applySnapshot that type-checks but leaves the store as it was
applySnapshotKeepingStore(storeDoc, snap) ==
  IF CanApply(snap) THEN storeDoc ELSE MstError
\* applySnapshot(store, snap): the store's snapshot afterwards, or the
\* "[mobx-state-tree]" error that leaves the store as it was
applySnapshot(storeDoc, snap) ==
  IF CanApply(snap) THEN getSnapshot(testStoreModel, snap) ELSE MstError

\* variant: a failing applySnapshot that has already written the root
\* fields it could before it raises
storeHalfApplied(storeDoc, snap) ==
  IF ~isPlainObject(snap) THEN storeDoc
  ELSE Obj([k \in DOMAIN storeDoc.f |->
              IF k \in DOMAIN snap.f /\ is(testStoreModel.properties[k], snap.f[k])
              THEN getSnapshot(testStoreModel.properties[k], snap.f[k])
              ELSE storeDoc.f[k]])
\* the store after an applySnapshot that raised: the type check comes before
\* any write, the tree is as it was
storeAfterFailedApply(storeDoc, snap) == storeDoc

\* variant: the working copy is the candidate object itself
sameObject(snap) == [value |-> snap, own |-> FALSE]
\* const newSnapshot = JSON.parse(JSON.stringify(snapshot)): a deep copy that
\* shares no object with the candidate
workingCopy(snap) == [value |-> JSONClone(snap), own |-> TRUE]

\* no call of hydrateStore has been made
HydrateIdle ==
  /\ pc = "idle"
  /\ snapshot = Undef
  /\ storeSnapshot = Undef
  /\ tree = EmptyNode
  /\ pending = <<>>
  /\ newSnapshot = Undef
  /\ ownCopy = TRUE
  /\ processedPaths = {}
  /\ applied = 0
  /\ validated = FALSE
  /\ caught = Undef
  /\ thrown = "none"
  /\ calls = 0
  /\ outcomes = <<>>

Init ==
  /\ store \in LiveStores
  /\ NoOverride
  /\ NoProvider
  /\ NoCall
  /\ pc = "idle"
  /\ snapshot = Undef
  /\ storeBefore = store
  /\ storeSnapshot = Undef
  /\ tree = EmptyNode
  /\ pending = <<>>
  /\ newSnapshot = Undef
  /\ ownCopy = TRUE
  /\ processedPaths = {}
  /\ applied = 0
  /\ validated = FALSE
  /\ caught = Undef
  /\ thrown = "none"
  /\ calls = 0
  /\ outcomes = <<>>

\* hydrateStore(model, store, snap) up to the traversal: the first
\* applySnapshot and, when it fails, the set-up of the repair pass
Enter(snap) ==
  /\ snapshot' = snap
  /\ storeBefore' = store
  /\ calls' = calls + 1
  /\ applied' = 1
  /\ thrown' = "none"
  /\ processedPaths' = {}
  /\ IF applySnapshot(store, snap) # MstError
     THEN /\ store' = applySnapshot(store, snap)
          /\ pc' = "returned"
          /\ outcomes' = Append(outcomes, "full")
          /\ validated' = FALSE
          /\ caught' = Undef
          /\ storeSnapshot' = Undef
          /\ tree' = EmptyNode
          /\ pending' = <<>>
          /\ newSnapshot' = Undef
          /\ ownCopy' = TRUE
     ELSE /\ store' = storeAfterFailedApply(store, snap)
          /\ pc' = "repair"
          /\ outcomes' = outcomes
          /\ validated' = TRUE
          /\ caught' = applySnapshot(store, snap)
          /\ storeSnapshot' = store
          /\ tree' = buildTree(transformErrorsToObjects(
                       validate(testStoreModel, snap, RootContext)))
          /\ pending' = reverseDepthFirstTraversal(tree')
          /\ newSnapshot' = workingCopy(snap).value
          /\ ownCopy' = workingCopy(snap).own

\* the provider or a test hydrates the store from a stored snapshot
HydrateStore ==
  /\ pc = "idle"
  /\ \E snap \in Candidates : Enter(snap)
  /\ UNCHANGED <<ovars, pvars, uvars>>

\* the store's own snapshot is hydrated again after a call returned
HydrateAgain ==
  /\ pc = "returned"
  /\ calls < MaxCalls
  /\ Enter(store)
  /\ UNCHANGED <<ovars, pvars, uvars>>

\* one invocation of the traversal callback
RepairStep ==
  /\ pc = "repair"
  /\ pending # <<>>
  /\ LET result == callback(testStoreModel, store, storeSnapshot, tree,
                            Head(pending), newSnapshot, processedPaths)
     IN  /\ newSnapshot' = result.newSnapshot
         /\ processedPaths' = result.processedPaths
         /\ thrown' = result.thrown
         /\ pc' = IF result.thrown = "none" THEN "repair" ELSE "raised"
         /\ outcomes' = IF result.thrown = "none" THEN outcomes
                        ELSE Append(outcomes, "raised")
         \* assign and remove work in place: they show through the candidate
         \* when the working copy is the candidate's own object
         /\ snapshot' = IF ownCopy THEN snapshot ELSE result.newSnapshot
  /\ pending' = Tail(pending)
  /\ UNCHANGED <<store, storeBefore, storeSnapshot, tree, ownCopy, applied,
                 validated, caught, calls>>
  /\ UNCHANGED <<ovars, pvars, uvars>>

\* removeEmptyItemsRecursively and the second applySnapshot
FinishRepair ==
  /\ pc = "repair"
  /\ pending = <<>>
  /\ applied' = applied + 1
  /\ IF applySnapshot(store, removeEmptyItemsRecursively(newSnapshot)) # MstError
     THEN /\ store' = applySnapshot(store, removeEmptyItemsRecursively(newSnapshot))
          /\ pc' = "returned"
          /\ thrown' = "none"
          /\ outcomes' = Append(outcomes, "partial")
     ELSE /\ store' = storeAfterFailedApply(store, removeEmptyItemsRecursively(newSnapshot))
          /\ pc' = "raised"
          /\ thrown' = "MstError"
          /\ outcomes' = Append(outcomes, "raised")
  /\ UNCHANGED <<snapshot, storeBefore, storeSnapshot, tree, pending, newSnapshot,
                 ownCopy, processedPaths, validated, caught, calls>>
  /\ UNCHANGED <<ovars, pvars, uvars>>

Next == HydrateStore \/ HydrateAgain \/ RepairStep \/ FinishRepair

Spec == Init /\ [][Next]_vars

(***************************************************************************)
(* hydrateStore when applySnapshot fails for another reason                *)
(***************************************************************************)
\* an error raised inside applySnapshot that is not mobx-state-tree's own,
\* such as one thrown by a hook or a listener of the store
OtherError == [t |-> "Error"]

\* variant: the catch block takes every error for a structural one
isAnyError(error) == TRUE
\* error instanceof Error && error.message.startsWith('[mobx-state-tree]')
isStructural(error) == error = MstError

\* hydrateStore(model, store, snap) when the first applySnapshot raises an
\* error of another kind before it has written to the store
EnterFailing(snap) ==
  /\ snapshot' = snap
  /\ storeBefore' = store
  /\ calls' = calls + 1
  /\ applied' = 1
  /\ thrown' = "none"
  /\ processedPaths' = {}
  /\ caught' = OtherError
  /\ store' = storeAfterFailedApply(store, snap)
  /\ IF isStructural(OtherError)
     THEN /\ pc' = "repair"
          /\ outcomes' = outcomes
          /\ validated' = TRUE
          /\ storeSnapshot' = store
          /\ tree' = buildTree(transformErrorsToObjects(
                       validate(testStoreModel, snap, RootContext)))
          /\ pending' = reverseDepthFirstTraversal(tree')
          /\ newSnapshot' = workingCopy(snap).value
          /\ ownCopy' = workingCopy(snap).own
     ELSE /\ pc' = "returned"
          /\ outcomes' = Append(outcomes, "nothing")
          /\ validated' = FALSE
          /\ storeSnapshot' = Undef
          /\ tree' = EmptyNode
          /\ pending' = <<>>
          /\ newSnapshot' = Undef
          /\ ownCopy' = TRUE

\* the store is hydrated while its applySnapshot fails that way
HydrateFailingStore ==
  /\ pc = "idle"
  /\ \E snap \in Candidates : EnterFailing(snap)
  /\ UNCHANGED <<ovars, pvars, uvars>>

FailingNext == Next \/ HydrateFailingStore

FailingSpec == Init /\ [][FailingNext]_vars

(***************************************************************************)
(* deepObjectOverride called on its own                                    *)
(***************************************************************************)
\* the documents deepObjectOverride is given as original: stored snapshots
\* and initial states
Originals ==
  LiveStores \cup {testSnapshot} \cup {Candidate(choice) : choice \in ChoicesFrom(1, 1)}

\* the disallowLists: deep partials of the store's snapshot
DisallowLists ==
  {Obj([title |-> Str("Draft")]),
   Obj([name |-> Str("Nobody"), profile |-> Obj([lastName |-> Str("Hidden")])]),
   Obj([address |-> Obj([street |-> Str("Hidden St")])]),
   Obj([address |-> Null]),
   Obj([features |-> Arr(<<>>)]),
   Obj([features |-> Arr(<<Str("Only")>>), todos |-> EmptyObj]),
   Obj([todos |-> Obj([k \in {"2"} |-> Obj([note |-> Str("hidden")])])]),
   Obj([profile |-> EmptyObj]),
   EmptyObj}

OverrideInit ==
  /\ store = testInitialState
  /\ NoProvider
  /\ NoCall
  /\ storeBefore = store
  /\ HydrateIdle
  /\ original \in Originals
  /\ overrides \in DisallowLists \cup {Undef}
  /\ overridden = NotCalled

\* deepObjectOverride(original, overrides) is called and returns
DeepObjectOverride ==
  /\ overridden = NotCalled
  /\ overridden' = deepObjectOverride(original, overrides)
  /\ UNCHANGED <<original, overrides, hvars, pvars, uvars>>

OverrideNext == DeepObjectOverride

OverrideSpec == OverrideInit /\ [][OverrideNext]_vars

(***************************************************************************)
(* buildTree and removeEmptyItemsRecursively called on their own           *)
(***************************************************************************)
\* the PathObjects of a candidate's validation errors, each with the position
\* of its report: two reports of one path are two objects
Reports(candidate) ==
  LET errors == transformErrorsToObjects(validate(testStoreModel, candidate, RootContext))
  IN  [i \in 1..Len(errors) |-> [report |-> i] @@ errors[i]]

\* the error lists buildTree is given
ReportLists == {Reports(candidate) : candidate \in Candidates} \ {<<>>}

\* How long the lists of the documents that removeEmptyItemsRecursively is
\* given are.
MaxItems == 2

\* the lists of at most MaxItems items out of a set
ListsOf(items) ==
  {Arr(sq) : sq \in UNION {[1..n -> items] : n \in 0..MaxItems}}

\* documents without lists or records, with lists and records of those, and
\* with lists and records of these: undefined and null occur at every depth
Leaves == {Undef, Null, Num("1"), Str("")}
Shallow == Leaves \cup ListsOf(Leaves) \cup {Obj([name |-> leaf]) : leaf \in Leaves}
Documents == Shallow \cup ListsOf(Shallow) \cup {Obj([name |-> doc]) : doc \in Shallow}

\* a store model whose record and list may be null, by unions with a
\* dispatcher
dispatchedStoreModel ==
  ModelType("DispatchedStore", <<"name", "address", "favorites">>,
    [name |-> CoreType("string"),
     address |-> DispatchedUnion(<<addressModel, Literal(Null)>>),
     favorites |-> DispatchedUnion(<<ArrayType(favoritesModel), Literal(Null)>>)])

\* the live stores of that model and the snapshots they are hydrated from
DispatchedSnapshots ==
  LET addresses ==
        {Null, Address(Str("1 Live St"), Str("CA")), Address(Num("5"), Str("NY")),
         Address(Str("5 Ave"), Num("7")),
         Obj([street |-> Num("5"), state |-> Null, country |-> Num("5")])}
      lists ==
        {Null, Arr(<<Favorite(Str("live-a"), Str("Live A"))>>),
         Arr(<<Favorite(Num("1"), Str("A"))>>),
         Arr(<<Favorite(Str("a"), Str("A")), Favorite(Str("b"), Num("2"))>>),
         Arr(<<Favorite(Num("1"), Num("2"))>>)}
  IN  {Obj([name |-> name, address |-> address, favorites |-> favorites]) :
         name \in {Str("Jane Doe"), Num("1")}, address \in addresses,
         favorites \in lists}
DispatchedLiveStores ==
  {live \in DispatchedSnapshots :
     validate(dispatchedStoreModel, live,
              <<[path |-> "", type |-> dispatchedStoreModel]>>) = <<>>}

RECURSIVE RepairSteps(_, _, _, _, _, _, _)
\* the invocations of the traversal callback one after another, each with
\* the working copy and the processed paths it was given and its outcome;
\* an invocation that throws is the last
RepairSteps(model, storeDoc, storeSnap, errorTree, errors, newSnap, processed) ==
  IF errors = <<>> THEN <<>>
  ELSE LET result == callback(model, storeDoc, storeSnap, errorTree, Head(errors),
                              newSnap, processed)
       IN  <<[error |-> Head(errors), newSnapshot |-> newSnap,
              processedPaths |-> processed, result |-> result]>>
           \o (IF result.thrown # "none" THEN <<>>
               ELSE RepairSteps(model, storeDoc, storeSnap, errorTree, Tail(errors),
                                result.newSnapshot, result.processedPaths))

UtilInit ==
  /\ store = testInitialState
  /\ storeBefore = store
  /\ HydrateIdle
  /\ NoOverride
  /\ NoProvider
  /\ \/ fn = "buildTree" /\ arg \in ReportLists
     \/ fn = "removeEmptyItemsRecursively" /\ arg \in Documents
     \/ /\ fn = "hydrateStore"
        /\ arg \in {[model |-> dispatchedStoreModel, store |-> live, snapshot |-> snap] :
                      live \in DispatchedLiveStores,
                      snap \in DispatchedSnapshots \ DispatchedLiveStores}
  /\ output = NotCalled

\* buildTree(errors) is called and returns
BuildTree ==
  /\ fn = "buildTree"
  /\ output = NotCalled
  /\ output' = buildTree(arg)
  /\ UNCHANGED <<fn, arg, hvars, ovars, pvars>>

\* removeEmptyItemsRecursively(obj) is called and returns, and is called
\* again on what it returned
RemoveEmptyItems ==
  /\ fn = "removeEmptyItemsRecursively"
  /\ output = NotCalled
  /\ output' = [once |-> removeEmptyItemsRecursively(arg),
                twice |-> removeEmptyItemsRecursively(removeEmptyItemsRecursively(arg))]
  /\ UNCHANGED <<fn, arg, hvars, ovars, pvars>>

\* the repair pass of hydrateStore(model, store, snapshot) up to the second
\* applySnapshot, for a snapshot that the first applySnapshot rejects
RepairPass ==
  /\ fn = "hydrateStore"
  /\ output = NotCalled
  /\ LET errorTree == buildTree(transformErrorsToObjects(
                        validate(arg.model, arg.snapshot,
                                 <<[path |-> "", type |-> arg.model]>>)))
     IN  output' = [tree |-> errorTree,
                    steps |-> RepairSteps(arg.model, arg.store, arg.store, errorTree,
                                reverseDepthFirstTraversal(errorTree),
                                JSONClone(arg.snapshot), {})]
  /\ UNCHANGED <<fn, arg, hvars, ovars, pvars>>

UtilNext == BuildTree \/ RemoveEmptyItems \/ RepairPass

UtilSpec == UtilInit /\ [][UtilNext]_vars

(***************************************************************************)
(* createPersistentStore and PersistentStoreProvider                       *)
(***************************************************************************)
\* defaultOptions
storageKey == "persistentStore"
writeDelay == 1500

\* How far the clock runs without a timer pending, how far one step of the
\* clock goes at most, and how many snapshots the store emits.
MaxTime == 3000
TimeStep == 750
MaxEmits == 3

\* testSnapshot with one root field changed
StoredWith(key, value) ==
  Obj([k \in DOMAIN testSnapshot.f |-> IF k = key THEN value ELSE testSnapshot.f[k]])

\* what storage may hold under storageKey when the provider mounts: nothing,
\* snapshots written by setItem (JSON-serialised, so without the fields that
\* were undefined), snapshots of another version of the model, and values
\* that are no snapshots
StoredData ==
  {Null,
   JSONClone(testSnapshot),
   JSONClone(testInitialState),
   JSONClone(StoredWith("address", Null)),
   JSONClone(StoredWith("title", Undef)),
   StoredWith("title", Num("12")),
   StoredWith("address", Obj([street |-> Str("5 Ave"), state |-> Num("7"),
                              country |-> Num("5")])),
   Num("42"),
   Str("")}

\* the disallowLists the provider is created with
ProviderDisallowLists ==
  {Undef,
   Obj([title |-> Str("Draft")]),
   Obj([profile |-> Obj([lastName |-> Str("Hidden")])]),
   Obj([address |-> Obj([street |-> Str("Hidden St")])]),
   Obj([additionalAddresses |-> Arr(<<>>)]),
   Obj([features |-> Arr(<<Str("Only")>>), todos |-> EmptyObj])}

\* the init argument
Inits == {testInitialState, populatedState}

\* const initStore = disallowList ? deepObjectOverride(init, disallowList) : init
initStore(init, list) ==
  IF Truthy(list) THEN deepObjectOverride(init, list) ELSE init

\* createPersistentStore(store, storage, init, disallowList, options):
\* mstStore = store.create(initStore); the provider is not mounted yet
ProviderInit ==
  /\ \E init \in Inits, list \in ProviderDisallowLists :
       /\ CanApply(initStore(init, list))
       /\ store = getSnapshot(testStoreModel, initStore(init, list))
       /\ disallowList = list
  /\ storeBefore = store
  /\ HydrateIdle
  /\ NoOverride
  /\ NoCall
  /\ storageItem \in StoredData
  /\ ppc = "created"
  /\ mounted = FALSE
  /\ listening = FALSE
  /\ data = Undef
  /\ hydration = "pending"
  /\ removed = FALSE
  /\ onHydrateCalls = <<>>
  /\ now = 0
  /\ timeoutId = NoTimer
  /\ emitted = <<>>
  /\ setItems = <<>>
  /\ logged = <<>>

\* the provider mounts: the effect starts and awaits storage.getItem
Mount ==
  /\ ppc = "created"
  /\ ppc' = "getItem"
  /\ mounted' = TRUE
  /\ UNCHANGED <<hvars, ovars, listening, storageItem, data, disallowList, hydration,
                 removed, onHydrateCalls, now, timeoutId, emitted, setItems>>
  /\ UNCHANGED <<uvars, logged>>

\* getItem resolves; if (data && isMounted()) hydrateStore is entered with
\* deepObjectOverride(data, disallowList)
GetItemResolved ==
  /\ ppc = "getItem"
  /\ data' = storageItem
  /\ IF Truthy(storageItem) /\ mounted
     THEN /\ Enter(deepObjectOverride(storageItem, disallowList))
          /\ ppc' = "hydrate"
          /\ hydration' = hydration
     ELSE /\ ppc' = "onHydrate"
          /\ hydration' = IF Truthy(storageItem) THEN "unmounted" ELSE "no data"
          /\ UNCHANGED hvars
  /\ UNCHANGED <<ovars, mounted, listening, storageItem, disallowList, removed,
                 onHydrateCalls, now, timeoutId, emitted, setItems>>
  /\ UNCHANGED <<uvars, logged>>

\* variant: the catch block does not wait for removeItem
AfterCatchWithoutAwait(outcome) == "onHydrate"
\* where the effect goes when hydrateStore is over: the catch block awaits
\* storage.removeItem
AfterHydrateStore(outcome) ==
  IF outcome = "raised" THEN "removeItem" ELSE "onHydrate"

\* hydrateStore has no return statement: whatever happened inside, the call
\* evaluates to undefined
hydrateStoreResult(outcome) == Undef

\* what the try block and the catch block give the logger once hydrateStore
\* is over
hydrationLog(position, outcome) ==
  IF position = "raised"
  THEN <<"Failed to fully or partially hydrate store. Throwing away data from storage.",
         "Check the error for more details.">>
  ELSE IF Truthy(hydrateStoreResult(outcome))
       THEN <<"Successfully hydrated store from storage">>
       ELSE <<"WARNING! Partial hydration. Some data was not hydrated.">>

\* hydrateStore returns or raises into the provider's try block
HydrateStoreOver ==
  /\ ppc = "hydrate"
  /\ pc \in {"returned", "raised"}
  /\ hydration' = pc
  /\ ppc' = AfterHydrateStore(pc)
  /\ logged' = logged \o hydrationLog(pc, outcomes[Len(outcomes)])
  /\ UNCHANGED <<hvars, ovars, mounted, listening, storageItem, data, disallowList,
                 removed, onHydrateCalls, now, timeoutId, emitted, setItems>>
  /\ UNCHANGED uvars

\* variant: a removeItem that leaves the item in storage
itemKept(item) == item
\* storage after removeItem(storageKey)
itemRemoved(item) == Null

\* await storage.removeItem(storageKey) resolves
RemoveItemResolved ==
  /\ ppc = "removeItem"
  /\ storageItem' = itemRemoved(storageItem)
  /\ removed' = TRUE
  /\ ppc' = "onHydrate"
  /\ UNCHANGED <<hvars, ovars, mounted, listening, data, disallowList, hydration,
                 onHydrateCalls, now, timeoutId, emitted, setItems>>
  /\ UNCHANGED <<uvars, logged>>

\* if (isMounted()) onHydrate?.(mstStore)
OnHydrate ==
  /\ ppc = "onHydrate"
  /\ onHydrateCalls' =
       IF mounted
       THEN Append(onHydrateCalls, [hydration |-> hydration, removed |-> removed,
                                    store |-> store])
       ELSE onHydrateCalls
  /\ ppc' = "subscribe"
  /\ UNCHANGED <<hvars, ovars, mounted, listening, storageItem, data, disallowList,
                 hydration, removed, now, timeoutId, emitted, setItems>>
  /\ UNCHANGED <<uvars, logged>>

\* saveSnapshot = debounce(...); return onSnapshot(mstStore, ...)
Subscribe ==
  /\ ppc = "subscribe"
  /\ ppc' = "listening"
  /\ listening' = TRUE
  /\ UNCHANGED <<hvars, ovars, mounted, storageItem, data, disallowList, hydration,
                 removed, onHydrateCalls, now, timeoutId, emitted, setItems>>
  /\ UNCHANGED <<uvars, logged>>

\* the provider unmounts while the effect is not inside hydrateStore:
\* isMounted() turns false and disposer?.() runs, with the disposer the
\* effect has returned by then, if any
Unmount ==
  /\ mounted
  /\ ppc # "hydrate"
  /\ mounted' = FALSE
  /\ listening' = IF ppc = "listening" THEN FALSE ELSE listening
  /\ UNCHANGED <<hvars, ovars, ppc, storageItem, data, disallowList, hydration,
                 removed, onHydrateCalls, now, timeoutId, emitted, setItems>>
  /\ UNCHANGED <<uvars, logged>>

\* the timer is due
Due == timeoutId.set /\ timeoutId.due = now

\* variant: a pending timer keeps its deadline
deadlineKept(timer, time) == IF timer.set THEN timer.due ELSE time + writeDelay
\* clearTimeout(timeoutId); timeoutId = setTimeout(doLater, waitMilliseconds)
deadline(timer, time) == time + writeDelay

\* the titles an action of the application sets
Titles == {Str("Edited"), Str("Edited again")}

\* an action changes the store; onSnapshot delivers the new snapshot to
\* saveSnapshot, the debounced function, which restarts its timer
StoreChange ==
  /\ ppc = "listening"
  /\ Len(emitted) < MaxEmits
  /\ ~Due
  /\ \E title \in Titles :
       /\ store.f["title"] # title
       /\ store' = Obj([k \in DOMAIN store.f |-> IF k = "title" THEN title ELSE store.f[k]])
  /\ IF listening
     THEN /\ emitted' = Append(emitted, [at |-> now, snapshot |-> store',
                                         mounted |-> mounted])
          /\ timeoutId' = [set |-> TRUE, due |-> deadline(timeoutId, now),
                           args |-> store', of |-> Len(emitted) + 1]
     ELSE UNCHANGED <<emitted, timeoutId>>
  /\ UNCHANGED <<pc, snapshot, storeBefore, storeSnapshot, tree, pending, newSnapshot,
                 ownCopy, processedPaths, applied, validated, caught, thrown,
                 calls, outcomes>>
  /\ UNCHANGED <<ovars, ppc, mounted, listening, storageItem, data, disallowList,
                 hydration, removed, onHydrateCalls, now, setItems>>
  /\ UNCHANGED <<uvars, logged>>

\* doLater: timeoutId = undefined; storage.setItem(storageKey, snapshot)
DoLater ==
  /\ Due
  /\ timeoutId' = NoTimer
  /\ storageItem' = JSONClone(timeoutId.args)
  /\ setItems' = Append(setItems, [at |-> now, key |-> storageKey,
                                   value |-> timeoutId.args, of |-> timeoutId.of])
  /\ UNCHANGED <<hvars, ovars, ppc, mounted, listening, data, disallowList, hydration,
                 removed, onHydrateCalls, now, emitted>>
  /\ UNCHANGED <<uvars, logged>>

\* the smaller of two numbers
Min(a, b) == IF a < b THEN a ELSE b

\* time passes, up to the deadline of a pending timer
Tick ==
  /\ ppc = "listening"
  /\ IF timeoutId.set
     THEN /\ now < timeoutId.due
          /\ now' = Min(now + TimeStep, timeoutId.due)
     ELSE /\ now < MaxTime
          /\ now' = now + TimeStep
  /\ UNCHANGED <<hvars, ovars, ppc, mounted, listening, storageItem, data, disallowList,
                 hydration, removed, onHydrateCalls, timeoutId, emitted, setItems>>
  /\ UNCHANGED <<uvars, logged>>

ProviderNext ==
  \/ Mount
  \/ GetItemResolved
  \/ RepairStep
  \/ FinishRepair
  \/ HydrateStoreOver
  \/ RemoveItemResolved
  \/ OnHydrate
  \/ Subscribe
  \/ Unmount
  \/ StoreChange
  \/ DoLater
  \/ Tick

ProviderSpec == ProviderInit /\ [][ProviderNext]_vars

(***************************************************************************)
(* Properties                                                              *)
(***************************************************************************)
\* hydrateStore has been called and has returned or raised
Finished == pc \in {"returned", "raised"}
Returned == pc = "returned"

\* the declared type of a root field and the candidate's value there
Declared(key) == testStoreModel.properties[key]
CandidateValue(key) ==
  IF isPlainObject(snapshot) /\ key \in DOMAIN snapshot.f THEN snapshot.f[key] ELSE Undef

\* the validation errors of the candidate of the call under way
CandidateErrors ==
  transformErrorsToObjects(validate(testStoreModel, snapshot, RootContext))
\* the paths of a list of errors, and the errors it has at one path
PathsOf(errors) == {errors[i].path : i \in DOMAIN errors}
At(errors, path) == {errors[i] : i \in {j \in DOMAIN errors : errors[j].path = path}}
ErrorPaths == LET errors == CandidateErrors IN PathsOf(errors)
ErrorsAt(path) == LET errors == CandidateErrors IN At(errors, path)

\* the store holds the candidate's (valid) value at a root field
HoldsCandidate(key) == store.f[key] = getSnapshot(Declared(key), CandidateValue(key))
\* the store holds its pre-hydration value at a root field
HoldsPrevious(key) == store.f[key] = storeBefore.f[key]
OthersHoldCandidate(key) == \A other \in RootKeys \ {key} : HoldsCandidate(other)

\* the empty value an Optional root field falls back to
SynthesizedDefault(key) ==
  CASE key \in {"title", "address"} -> Null
    [] key = "additionalAddresses" -> Undef
    [] key \in {"features", "favorites"} -> Arr(<<>>)
    [] OTHER -> EmptyObj

\* C1: whenever hydrateStore returns without raising, the store's current
\* snapshot validates against the store model.
Validity == Returned => is(testStoreModel, store)

\* C1 witness: a call that needed the repair pass has returned
ValidityWitness == Returned /\ validated /\ applied = 2 /\ is(testStoreModel, store)

\* the root fields that hold a list, and the declared type of their items
ListKeys == {key \in RootKeys : isArrayType(Declared(key))}
ItemType(key) == resolveType(Declared(key), Arr(<<>>)).subType
\* the candidate's list has items that fail the item type beside items that pass
MixedList(key) ==
  /\ isArray(CandidateValue(key))
  /\ \E i \in 1..Len(CandidateValue(key).s) : is(ItemType(key), CandidateValue(key).s[i])
  /\ \E i \in 1..Len(CandidateValue(key).s) : ~is(ItemType(key), CandidateValue(key).s[i])
\* the candidate's passing items, in their order
ValidItems(key) ==
  getSnapshot(ArrayType(ItemType(key)),
    Arr(SelectSeq(CandidateValue(key).s, LAMBDA item : is(ItemType(key), item))))

\* C2 (as claimed): after hydrateStore, a list whose candidate value mixes
\* failing and passing items is exactly the candidate's passing items, in
\* their original order.
ListTolerance ==
  (Finished /\ calls = 1) =>
    \A key \in ListKeys : MixedList(key) => store.f[key] = ValidItems(key)

\* a returned call in which, over a store whose favorites hold an item at
\* index 1, the candidate's failing item at index 1 was replaced by the
\* store's item instead of being removed
ListItemRestoredFromStore ==
  /\ Returned /\ calls = 1
  /\ storeBefore = populatedState
  /\ CandidateValue("favorites") =
       Arr(<<Favorite(Str("first"), Str("First post")), Obj([slug |-> Str("second")]),
             Favorite(Str("third"), Str("Third post"))>>)
  /\ store.f["favorites"] =
       Arr(<<Favorite(Str("first"), Str("First post")),
             Favorite(Str("live-b"), Str("Live B")),
             Favorite(Str("third"), Str("Third post"))>>)

\* the root fields that hold a map
MapKeys == {key \in RootKeys : isMapType(Declared(key))}
EntryType(key) == resolveType(Declared(key), EmptyObj).subType
MixedMap(key) ==
  /\ isPlainObject(CandidateValue(key))
  /\ \E k \in DOMAIN CandidateValue(key).f : is(EntryType(key), CandidateValue(key).f[k])
  /\ \E k \in DOMAIN CandidateValue(key).f : ~is(EntryType(key), CandidateValue(key).f[k])
ValidEntries(key) ==
  Obj([k \in {j \in DOMAIN CandidateValue(key).f :
                is(EntryType(key), CandidateValue(key).f[j])} |->
         getSnapshot(EntryType(key), CandidateValue(key).f[k])])

\* C3 (as claimed): after hydrateStore, a map whose candidate value mixes
\* failing and passing entries holds exactly the candidate's passing
\* entries under their keys, whatever the store's map held before.
MapTolerance ==
  (Finished /\ calls = 1) =>
    \A key \in MapKeys : MixedMap(key) => store.f[key] = ValidEntries(key)

\* a returned call in which, over a store whose todos hold an entry under
\* "2", the candidate's failing entry under "2" was replaced by the store's
\* entry instead of being removed
MapEntryRestoredFromStore ==
  /\ Returned /\ calls = 1
  /\ storeBefore = populatedState
  /\ CandidateValue("todos") =
       Obj([k \in {"1", "2", "3"} |->
              IF k = "2" THEN Todo(Num("123"), Null) ELSE Todo(Str("First"), Null)])
  /\ store.f["todos"] =
       Obj([k \in {"1", "2", "3"} |->
              IF k = "2" THEN Todo(Str("Live todo"), Null) ELSE Todo(Str("First"), Null)])

\* the candidate's only validation errors are at one root field, at the
\* field itself
OnlyRootErrorAt(key) == ErrorPaths = {"/" \o key}

\* C4: when the candidate is valid except at one root field whose type is
\* not optional (missing or of the wrong type), that field keeps the
\* store's pre-hydration value and every other root field holds the
\* candidate's value.
RootRequiredField ==
  (Finished /\ calls = 1) =>
    LET errors == CandidateErrors
    IN  \A key \in RootKeys :
          (PathsOf(errors) = {"/" \o key} /\ ~isOptionalType(Declared(key))) =>
            Returned /\ HoldsPrevious(key) /\ OthersHoldCandidate(key)

\* C4 witness: a call has returned whose candidate was wrong only at name
RootRequiredFieldWitness ==
  /\ Returned /\ calls = 1
  /\ CandidateValue("name") = Num("42")
  /\ store.f["name"] = Str("John Doe")
  /\ OnlyRootErrorAt("name")

\* C5: when the candidate's only violation is at a root field whose
\* rejecting type is optional, that field holds the type's default (null,
\* undefined, empty list or empty map) whatever the store held there, and
\* every other root field holds the candidate's value.
RootOptionalField ==
  (Finished /\ calls = 1) =>
    LET errors == CandidateErrors
    IN  \A key \in RootKeys :
          (/\ PathsOf(errors) = {"/" \o key}
           /\ \A e \in At(errors, "/" \o key) : isOptionalType(e.type)) =>
            Returned /\ store.f[key] = SynthesizedDefault(key) /\ OthersHoldCandidate(key)

\* C5 witness: a call has returned whose candidate held null as its list of
\* features, over a store whose list was not empty
RootOptionalFieldWitness ==
  /\ Returned /\ calls = 1
  /\ storeBefore.f["features"] # Arr(<<>>)
  /\ store.f["features"] = Arr(<<>>)
  /\ OnlyRootErrorAt("features")

\* the root fields declared as a record that is not optional
RequiredRecordKeys == {key \in RootKeys : Declared(key).kind = "model"}
\* the paths of the fields of the record at a root field
FieldPaths(key, type) ==
  {"/" \o key \o "/" \o type.propertyNames[i] : i \in 1..Len(type.propertyNames)}

OptionalRecordKeys ==
  {key \in RootKeys : /\ Declared(key).kind = "union"
                      /\ Declared(key).types[1].kind = "model"
                      /\ isOptionalType(Declared(key))}

\* the candidate's record at an optional root field has a missing or
\* wrong-typed required field, and the candidate has no violation elsewhere
BadOptionalRecordIn(errors, key) ==
  /\ isPlainObject(CandidateValue(key))
  /\ \E i \in DOMAIN errors :
       /\ errors[i].path \in FieldPaths(key, Declared(key).types[1])
       /\ ~isOptionalType(errors[i].type)
  /\ PathsOf(errors) \subseteq {"/" \o key} \cup FieldPaths(key, Declared(key).types[1])
BadOptionalRecord(key) == LET errors == CandidateErrors IN BadOptionalRecordIn(errors, key)

\* C7: when a record held by an optional (maybeNull) field has missing or
\* wrong-typed required fields, the field ends up null, whether the store
\* held nothing or a valid record there; the other fields hold the
\* candidate's values.
OptionalRecord ==
  (Finished /\ calls = 1) =>
    LET errors == CandidateErrors
    IN  \A key \in OptionalRecordKeys :
          BadOptionalRecordIn(errors, key) =>
            Returned /\ store.f[key] = Null /\ OthersHoldCandidate(key)

\* C7 witness: a call has returned whose candidate had a bad address, over
\* a store that held a valid address
OptionalRecordWitness ==
  /\ Returned /\ calls = 1
  /\ storeBefore.f["address"] = Address(Str("1 Live St"), Str("CA"))
  /\ store.f["address"] = Null
  /\ BadOptionalRecord("address")

\* the type of an optional leaf
OptionalLeaf == maybeNull(CoreType("string"))

\* the candidate's only defect is the wrong-typed value of the optional leaf
\* at a path: it validates once that leaf holds null
OnlyDefectIsLeafIn(errors, path) ==
  /\ \A e \in At(errors, path) : e.type = OptionalLeaf
  /\ get(path, snapshot) \notin {TypeError, Undef, Null}
  /\ is(testStoreModel, assign(path, snapshot, Null))
OnlyDefectIsLeaf(path) == LET errors == CandidateErrors IN OnlyDefectIsLeafIn(errors, path)

\* C8: when the candidate's only defect is one optional leaf holding a value
\* of the wrong type (in the root record, a nested record, a list item or a
\* map entry), the hydrated snapshot is the candidate with null at that
\* leaf and nothing else changed.
Minimality ==
  (Finished /\ calls = 1) =>
    LET errors == CandidateErrors
    IN  \A path \in PathsOf(errors) :
          OnlyDefectIsLeafIn(errors, path) =>
            Returned /\ store = getSnapshot(testStoreModel, assign(path, snapshot, Null))

\* C8 witness: a call has returned whose candidate was wrong only at the
\* state of its second additional address; the address is kept
MinimalityWitness ==
  /\ Returned /\ calls = 1
  /\ isArray(store.f["additionalAddresses"])
  /\ Len(store.f["additionalAddresses"].s) = 2
  /\ store.f["additionalAddresses"].s[2] = Address(Str("789 Oak St"), Null)
  /\ OnlyDefectIsLeaf("/additionalAddresses/1/state")

RECURSIVE Contains(_, _)
\* the document at every field that the other document holds a value at
Contains(doc, other) ==
  CASE isPlainObject(other) ->
         /\ isPlainObject(doc)
         /\ \A k \in DOMAIN other.f :
              k \in DOMAIN doc.f /\ Contains(doc.f[k], other.f[k])
    [] isArray(other) ->
         /\ isArray(doc)
         /\ Len(doc.s) = Len(other.s)
         /\ \A i \in 1..Len(other.s) : Contains(doc.s[i], other.s[i])
    [] OTHER -> doc = other

\* C9: a candidate that validates is applied as it is by the first
\* applySnapshot, without validation or repair pass, and the store's
\* snapshot equals the candidate at every field.
DirectApply ==
  (calls >= 1 /\ is(testStoreModel, snapshot)) =>
    Returned /\ applied = 1 /\ ~validated /\ Contains(store, snapshot)

\* C9 witness: the valid test snapshot has been applied directly
DirectApplyWitness ==
  /\ Returned /\ calls = 1 /\ snapshot = testSnapshot /\ applied = 1
  /\ store = testSnapshot /\ storeBefore # testSnapshot

Totality == pc = "raised" => (applied = 2 /\ thrown = "MstError")

\* the value hydrateStore raises: the TypeError of json-pointer or the Error
\* of mobx-state-tree, as it was thrown
RaisedError ==
  IF thrown = "TypeError"
  THEN [name |-> "TypeError", message |-> "Value at ... does not have property ..."]
  ELSE [name |-> "Error", message |-> "[mobx-state-tree] Error while converting ..."]
\* reading a property of an object: undefined when it has none
Property(object, name) == IF name \in DOMAIN object THEN object[name] ELSE Undef

\* C12: when the repaired document fails the second applySnapshot, the
\* value raised is an error of its own kind that carries the candidate and
\* the repaired document that was last tried.
FatalFailure ==
  (pc = "raised" /\ applied = 2) =>
    /\ RaisedError.name \notin {"Error", "TypeError"}
    /\ Property(RaisedError, "candidate") = snapshot
    /\ Property(RaisedError, "repaired") = removeEmptyItemsRecursively(newSnapshot)

\* C14: from the failed first applySnapshot to the second one the store is
\* not written, and when hydrateStore raises the store's snapshot is the
\* one it had when hydrateStore was called.
LiveReadOnly == pc \in {"repair", "raised"} => store = storeBefore

\* C14 witness: the second applySnapshot has failed after a repair pass that
\* read the store, and the store is as it was
LiveReadOnlyWitness ==
  /\ pc = "raised" /\ applied = 2 /\ processedPaths # {}
  /\ storeSnapshot = storeBefore /\ store = storeBefore

\* C15: during a call of hydrateStore the candidate it was given does not
\* change; the repair steps write to the working copy only.
CandidateNotMutated == [][calls' = calls => snapshot' = snapshot]_vars

\* C15 witness: a call has returned after its repair pass changed the
\* working copy, which is an object apart from the candidate
CandidateNotMutatedWitness ==
  /\ Returned /\ applied = 2 /\ ownCopy
  /\ newSnapshot # JSONClone(snapshot)

\* path p lies below path q
IsBelow(p, q) == p # q /\ startsWith(p, q \o "/")
IsPrefix(a, b) == Len(a) <= Len(b) /\ SubSeq(b, 1, Len(a)) = a
\* the index of the first of a list of errors at or below the path of some segments
FirstReport(errors, segments) ==
  CHOOSE i \in DOMAIN errors :
    /\ IsPrefix(segments, errors[i].pathSegments)
    /\ \A j \in 1..(i - 1) : ~IsPrefix(segments, errors[j].pathSegments)
\* the first index at which two segment lists differ (one is no prefix of the other)
Fork(a, b) == CHOOSE k \in 1..Len(a) : a[k] # b[k] /\ SubSeq(a, 1, k - 1) = SubSeq(b, 1, k - 1)

\* the callback visits no violation after one of its ancestors
DescendantsFirst ==
  \A i, j \in DOMAIN pending : i < j => ~IsBelow(pending[j].path, pending[i].path)
\* of two violations in different branches, the one whose branch was
\* reported (inserted) later is visited first
SiblingsReversed ==
  LET errors == CandidateErrors
  IN  \A i, j \in DOMAIN pending :
        LET a == pending[i].pathSegments
            b == pending[j].pathSegments
        IN  (i < j /\ ~IsPrefix(a, b) /\ ~IsPrefix(b, a)) =>
              FirstReport(errors, SubSeq(a, 1, Fork(a, b)))
                > FirstReport(errors, SubSeq(b, 1, Fork(a, b)))
\* a step writes (assigns or removes) at no path that still has a violation
\* to visit below it
NoEarlyAncestorWrite ==
  pc = "repair" /\ pending # <<>> =>
    \A p \in processedPaths' \ processedPaths :
      \A j \in DOMAIN pending' : ~IsBelow(pending'[j].path, p)

\* C20 (as amended): the callback runs for a violation only after it has run
\* for every violation below it, and branches are visited in reverse order
\* of insertion.
DeepestFirst == pc = "repair" => DescendantsFirst /\ SiblingsReversed

\* C20 witness: a traversal is about to start that holds a violation, one
\* of its ancestors and a violation in another branch
DeepestFirstWitness ==
  /\ pc = "repair" /\ processedPaths = {} /\ Len(pending) >= 3
  /\ \E i, j \in DOMAIN pending : i < j /\ IsBelow(pending[i].path, pending[j].path)
  /\ \E i, j \in DOMAIN pending :
       /\ ~IsPrefix(pending[i].pathSegments, pending[j].pathSegments)
       /\ ~IsPrefix(pending[j].pathSegments, pending[i].pathSegments)

\* C20 (as claimed): deepest first, siblings in reverse insertion order, and
\* no ancestor's value is replaced or removed before every violation below
\* it has been attempted.
DeepestFirstAsClaimed ==
  /\ [](pc = "repair" => DescendantsFirst /\ SiblingsReversed)
  /\ [][NoEarlyAncestorWrite]_vars

RECURSIVE OverrideRule(_, _, _)
\* a result obeys the rule of deepObjectOverride: the keys are original's;
\* a key that overrides does not name (or names with undefined) keeps its
\* value; a named key with a value takes the override value as a whole,
\* unless both values are objects and the override is not empty, when the
\* rule holds between them
OverrideRule(orig, over, result) ==
  /\ isPlainObject(result)
  /\ DOMAIN result.f = DOMAIN orig.f
  /\ \A key \in DOMAIN orig.f :
       IF key \notin DOMAIN over.f \/ orig.f[key] = Undef \/ over.f[key] = Undef
       THEN result.f[key] = orig.f[key]
       ELSE IF /\ isPlainObject(over.f[key]) /\ over.f[key] # EmptyObj
               /\ isPlainObject(orig.f[key])
            THEN OverrideRule(orig.f[key], over.f[key], result.f[key])
            ELSE result.f[key] = over.f[key]

RECURSIVE ClaimedOverrideRule(_, _, _)
\* the rule as claimed: a non-empty object override is merged by the same
\* rule whatever the original value is, so that an original value without
\* keys (null, a scalar, a list) stays as it is
ClaimedOverrideRule(orig, over, result) ==
  IF ~isPlainObject(orig) THEN result = orig
  ELSE /\ isPlainObject(result)
       /\ DOMAIN result.f = DOMAIN orig.f
       /\ \A key \in DOMAIN orig.f :
            IF key \notin DOMAIN over.f \/ orig.f[key] = Undef \/ over.f[key] = Undef
            THEN result.f[key] = orig.f[key]
            ELSE IF isPlainObject(over.f[key]) /\ over.f[key] # EmptyObj
                 THEN ClaimedOverrideRule(orig.f[key], over.f[key], result.f[key])
                 ELSE result.f[key] = over.f[key]

CallerPolicy ==
  hydration = "raised" =>
    /\ ppc # "listening" => store = storeBefore
    /\ (ppc # "removeItem" /\ setItems = <<>>) => (removed /\ storageItem = Null)

\* C13 witness: a stored snapshot made hydrateStore raise during the repair
\* pass, the item is gone and the effect has gone on past onHydrate with the
\* store as it was created
CallerPolicyWitness ==
  /\ hydration = "raised"
  /\ ppc = "subscribe"
  /\ isPlainObject(data)
  /\ thrown # "none"
  /\ Len(onHydrateCalls) = 1
  /\ storageItem = Null
  /\ store = storeBefore

RECURSIVE Covers(_, _)
\* value holds list's value at every path that list gives
Covers(value, list) ==
  IF isPlainObject(list) /\ list # EmptyObj
  THEN \A key \in DOMAIN list.f :
         list.f[key] = Undef \/ Covers(ReadProperty(value, key), list.f[key])
  ELSE value = list

\* C16: after the provider has hydrated the store from storage, the store's
\* value at every path given in disallowList is the disallowList's value.
DisallowListOnHydration ==
  (hydration = "returned" /\ ppc \in {"onHydrate", "subscribe"} /\ disallowList # Undef)
    => Covers(store, disallowList)

\* C19: onHydrate is called at most once per mount, only after getItem has
\* resolved and, when data was found, after hydrateStore has returned or has
\* raised and removeItem has resolved; and when the effect reaches that
\* point with the provider mounted, onHydrate is called.
OnHydrateCalled ==
  (ppc = "onHydrate" /\ ppc' = "subscribe" /\ mounted)
    => Len(onHydrateCalls') = Len(onHydrateCalls) + 1

OnHydrateAfterAttempt ==
  /\ Len(onHydrateCalls) <= 1
  /\ \A i \in 1..Len(onHydrateCalls) :
       LET call == onHydrateCalls[i]
       IN  /\ data # Undef
           /\ call.hydration \in {"returned", "raised", "no data"}
           /\ call.hydration = "no data" <=> ~Truthy(data)
           /\ call.hydration = "raised" => (call.removed /\ call.store = storeBefore)
           /\ call.hydration = "returned" => pc = "returned"

OnHydrateOrdering == []OnHydrateAfterAttempt /\ [][OnHydrateCalled]_vars

\* C19 witness: onHydrate has been called once, after a partial hydration
OnHydrateOrderingWitness ==
  /\ ppc = "listening"
  /\ mounted
  /\ Len(onHydrateCalls) = 1
  /\ onHydrateCalls[1].hydration = "returned"
  /\ outcomes = <<"partial">>

\* the i-th snapshot is the last of its burst: none follows it less than
\* writeDelay later
LastOfBurst(i) ==
  i = Len(emitted) \/ emitted[i + 1].at - emitted[i].at >= writeDelay

\* the calls of setItem made for the i-th snapshot
WritesOf(i) == {w \in 1..Len(setItems) : setItems[w].of = i}

\* C18: of snapshots that follow one another less than writeDelay apart only
\* the last is written, once, writeDelay after it was emitted, under
\* storageKey.
DebouncedPersistence ==
  /\ \A w \in 1..Len(setItems) :
       LET write == setItems[w]
       IN  /\ write.key = storageKey
           /\ write.of \in 1..Len(emitted)
           /\ LastOfBurst(write.of)
           /\ write.value = emitted[write.of].snapshot
           /\ write.at = emitted[write.of].at + writeDelay
  /\ \A i \in 1..Len(emitted) :
       /\ Cardinality(WritesOf(i)) <= 1
       /\ (LastOfBurst(i) /\ (now > emitted[i].at + writeDelay
                              \/ (now = emitted[i].at + writeDelay /\ ~Due)))
            => Cardinality(WritesOf(i)) = 1

\* C18 witness: a burst of two snapshots less than writeDelay apart and a
\* third snapshot later; the second and the third have been written
DebouncedPersistenceWitness ==
  /\ Len(emitted) = 3
  /\ emitted[2].at > emitted[1].at
  /\ emitted[2].at - emitted[1].at < writeDelay
  /\ emitted[3].at - emitted[2].at >= writeDelay
  /\ Len(setItems) = 2
  /\ setItems[1].of = 2
  /\ setItems[2].of = 3

\* the traversal invokes the callback on the next violation
CallbackStep == pc = "repair" /\ pending # <<>> /\ pending' = Tail(pending)

\* the value at the next violation's path in the working copy validates
\* against the type that rejected it
NowValidates ==
  /\ get(Head(pending).path, newSnapshot) # TypeError
  /\ is(Head(pending).type, get(Head(pending).path, newSnapshot))

\* the callback returned at the revalidation check: the path is marked
\* processed and the working copy is as it was
ShortCircuited ==
  /\ pc' = "repair"
  /\ newSnapshot' = newSnapshot
  /\ processedPaths' = processedPaths \cup {Head(pending).path}

\* C21 (as amended): when the repair step reaches a violation at path p and
\* some already-processed path starts with p (p itself or a path below p was
\* processed), the value at p in the working copy is re-validated against
\* the violation's type, and if it validates p is marked processed and the
\* working copy is not written.
RevalidationStep ==
  (/\ CallbackStep
   /\ \E processedPath \in processedPaths : startsWith(processedPath, Head(pending).path)
   /\ NowValidates)
    => ShortCircuited

RevalidationStepAsClaimed ==
  (/\ CallbackStep
   /\ \E processedPath \in processedPaths : IsBelow(Head(pending).path, processedPath)
   /\ NowValidates)
    => ShortCircuited

HasViolationsBelow ==
  NodeAt(tree, Tail(Head(pending).pathSegments)).keys # <<>>

\* C22: when the repair step reaches a violation at a path below which
\* violations were reported too, the steps for those have not written the
\* path itself, and the value now at the path validates against the type
\* that rejected it, the value is kept as the descendants' repairs left it:
\* the step writes nothing, neither the default nor the live store's value.
NonDestructiveStep ==
  (/\ CallbackStep
   /\ HasViolationsBelow
   /\ Head(pending).path \notin processedPaths
   /\ NowValidates)
    => /\ ShortCircuited
       /\ get(Head(pending).path, newSnapshot') = get(Head(pending).path, newSnapshot)

NonDestructiveParent == [][NonDestructiveStep]_vars

\* C22 witness: the optional address record was reported together with its
\* state; the state was defaulted and the record is in the store with its
\* street
NonDestructiveParentWithCandidate(errors) ==
  /\ Returned /\ applied = 2 /\ calls = 1
  /\ snapshot.f["address"] = Address(Str("5 Ave"), Num("7"))
  /\ "/address" \in PathsOf(errors)
  /\ "/address/state" \in PathsOf(errors)
  /\ {"/address", "/address/state"} \subseteq processedPaths
  /\ store.f["address"] = Address(Str("5 Ave"), Null)

NonDestructiveParentWitness ==
  LET errors == CandidateErrors IN NonDestructiveParentWithCandidate(errors)

\* C28: when hydrateStore has returned to the provider, the provider has
\* logged the success message if the stored data applied without repair and
\* the partial-hydration warning if a repair pass was needed.
FullHydrationReport ==
  hydration = "returned" =>
    logged = IF outcomes[Len(outcomes)] = "full"
             THEN <<"Successfully hydrated store from storage">>
             ELSE <<"WARNING! Partial hydration. Some data was not hydrated.">>

\* the positions of the reports of a path, in a list of reports
ReportsOf(reports, path) == {i \in 1..Len(reports) : reports[i].path = path}
\* the largest and the smallest of a set of numbers
Last(numbers) == CHOOSE n \in numbers : \A m \in numbers : m <= n
First(numbers) == CHOOSE n \in numbers : \A m \in numbers : n <= m

\* the PathObject that the tree holds for the path of the i-th report
Kept(i) == NodeAt(output, Tail(arg[i].pathSegments)).value

\* C23 (as amended): when the validator reports two violations with the
\* same path, the violation tree keeps the last one reported for that path;
\* every report of the path names the same rejecting type, which is the
\* type the repair step sees.
DuplicatePaths ==
  (fn = "buildTree" /\ output # NotCalled) =>
    \A i \in 1..Len(arg) :
      /\ Kept(i) = arg[Last(ReportsOf(arg, arg[i].path))]
      /\ Kept(i).type = arg[i].type

\* C23 witness: a tree was built from a list that reports a path twice
DuplicatePathsWitness ==
  /\ fn = "buildTree" /\ output # NotCalled
  /\ \E i \in 1..Len(arg) : \E j \in 1..Len(arg) :
       i < j /\ arg[i].path = arg[j].path /\ Kept(i) = arg[j]

\* C23 (as claimed): the violation tree keeps the first violation reported
\* for a path and discards the later ones.
DuplicatePathsAsClaimed ==
  (fn = "buildTree" /\ output # NotCalled) =>
    \A i \in 1..Len(arg) : Kept(i) = arg[First(ReportsOf(arg, arg[i].path))]

\* the items of a list that are not undefined, in their order
Defined(items) == SelectSeq(items, LAMBDA item : item # Undef)

RECURSIVE Stripped(_, _)
\* out is obj without its holes: a list holds, in their order, the items of
\* obj's list that are not undefined, each without its holes; a record has
\* obj's keys, each value without its holes; anything else is obj
Stripped(obj, out) ==
  CASE isArray(obj) ->
         /\ isArray(out)
         /\ Len(out.s) = Len(Defined(obj.s))
         /\ \A i \in 1..Len(out.s) : Stripped(Defined(obj.s)[i], out.s[i])
    [] isPlainObject(obj) ->
         /\ isPlainObject(out)
         /\ DOMAIN out.f = DOMAIN obj.f
         /\ \A key \in DOMAIN obj.f : Stripped(obj.f[key], out.f[key])
    [] OTHER -> out = obj

\* C26: removeEmptyItemsRecursively returns the document in which every
\* list, at every depth, holds exactly the items of the input list that are
\* not undefined, in their order (null is kept), every record keeps its
\* keys, and scalars are as they were; applying it twice gives what
\* applying it once gives.
HoleStripping ==
  (fn = "removeEmptyItemsRecursively" /\ output # NotCalled) =>
    /\ Stripped(arg, output.once)
    /\ output.twice = output.once

\* C26 witness: a list inside a list lost its undefined item and kept its
\* null, and the outer list lost its undefined item
HoleStrippingWitness ==
  /\ fn = "removeEmptyItemsRecursively"
  /\ arg = Arr(<<Arr(<<Undef, Null>>), Undef>>)
  /\ output # NotCalled
  /\ output.once = Arr(<<Arr(<<Null>>)>>)

\* the traversal is about to invoke the callback on a nested violation of a
\* type that is not optional
NestedRequiredNext ==
  /\ pc = "repair" /\ pending # <<>>
  /\ Head(pending).isNested
  /\ ~isOptionalType(Head(pending).type)

\* the proper ancestors of the next violation's path below the root, as
\* lists of segments
ProperAncestors ==
  {SubSeq(Head(pending).pathSegments, 1, n) : n \in 2..(Len(Head(pending).pathSegments) - 1)}

\* those that carry a violation of their own in the tree, and those that
\* resolve to a node of the live store
TreeAncestors == {a \in ProperAncestors : NodeAt(tree, Tail(a)).value # Null}
LiveAncestors == {a \in ProperAncestors : tryResolve(testStoreModel, store, Join(a)) # Undef}

\* the longest of a set of ancestors
Nearest(ancestors) == CHOOSE a \in ancestors : \A b \in ancestors : Len(b) <= Len(a)

\* the ancestor that tryResolveNearestExistingParent gives for the next
\* violation
ResolvedAncestor ==
  tryResolveNearestExistingParent(testStoreModel, store, Head(pending), tree)

AncestorAsSpecified(resolved) ==
  /\ TreeAncestors # {} =>
       /\ resolved # Null
       /\ resolved.nearestParentPath = Join(Nearest(TreeAncestors))
       /\ resolved.type = NodeAt(tree, Tail(Nearest(TreeAncestors))).value.type
  /\ (TreeAncestors = {} /\ LiveAncestors # {}) =>
       /\ resolved # Null
       /\ resolved.nearestParentPath = Join(Nearest(LiveAncestors))
  /\ (TreeAncestors = {} /\ LiveAncestors = {}) => resolved = Null
  /\ resolved # Null =>
       /\ resolved.nearestParentPath # ""
       /\ Len(Split(resolved.childPath)) = Len(Split(resolved.nearestParentPath)) + 1
       /\ IsPrefix(Split(resolved.nearestParentPath), Split(resolved.childPath))
       /\ IsPrefix(Split(resolved.childPath), Head(pending).pathSegments)

AncestorsOf(segments) == {SubSeq(segments, 1, n) : n \in 2..(Len(segments) - 1)}

\* a repair step on a nested violation of a type that is not optional, not
\* stopped by the revalidation check, for which no ancestor below the root
\* carries a violation in the tree or resolves to a node with a value in the
\* live store
NoAncestorStep(step) ==
  /\ step.error.isNested
  /\ ~isOptionalType(step.error.type)
  /\ ~checkSetForPrefix(step.processedPaths, step.error.path)
  /\ \A a \in AncestorsOf(step.error.pathSegments) :
       /\ NodeAt(output.tree, Tail(a)).value = Null
       /\ LET node == tryResolve(arg.model, arg.store, Join(a))
          IN  node = Undef \/ ~Truthy(node.value)

\* the path of a violation without its last segment
ParentPath(error) ==
  Join(SubSeq(error.pathSegments, 1, Len(error.pathSegments) - 1))
LastSegment(error) == error.pathSegments[Len(error.pathSegments)]

\* the step has deleted the value at the violation's path from the record
\* that held it and changed nothing else
DeletedOnly(step) ==
  LET before == get(ParentPath(step.error), step.newSnapshot)
      after == get(ParentPath(step.error), step.result.newSnapshot)
  IN  /\ step.result.thrown = "none"
      /\ isPlainObject(before) /\ isPlainObject(after)
      /\ DOMAIN after.f = DOMAIN before.f \ {LastSegment(step.error)}
      /\ \A k \in DOMAIN after.f : after.f[k] = before.f[k]
      /\ assign(ParentPath(step.error), step.result.newSnapshot, before)
           = step.newSnapshot

\* C25: a repair step on a nested violation of a type that is not optional,
\* for which neither the tree nor the live store has an ancestor below the
\* root, deletes the value at the violation's path from the working copy,
\* changes nothing else in it and marks the path processed.
NoResolvableAncestor ==
  (fn = "hydrateStore" /\ output # NotCalled) =>
    \A i \in 1..Len(output.steps) :
      NoAncestorStep(output.steps[i]) =>
        /\ DeletedOnly(output.steps[i])
        /\ output.steps[i].result.processedPaths
             = output.steps[i].processedPaths \cup {output.steps[i].error.path}

\* C25 witness: the live address is null and the stored street is a number:
\* the step deletes the street and keeps the rest of the stored address
NoResolvableAncestorWitness ==
  /\ fn = "hydrateStore" /\ output # NotCalled
  /\ arg.store.f.address = Null
  /\ \E i \in 1..Len(output.steps) :
       /\ NoAncestorStep(output.steps[i])
       /\ output.steps[i].error.path = "/address/street"
       /\ get("/address", output.steps[i].newSnapshot) = Address(Num("5"), Str("NY"))
       /\ "street" \notin DOMAIN get("/address", output.steps[i].result.newSnapshot).f
       /\ get("/address/state", output.steps[i].result.newSnapshot) = Str("NY")

RECURSIVE ValuesIn(_)
\* the positions of the tree's nodes that hold a violation
ValuesIn(node) ==
  (IF node.value # Null THEN {<<>>} ELSE {})
  \cup UNION {{<<k>> \o position : position \in ValuesIn(node.nodes[k])} :
                k \in DOMAIN node.nodes}

\* the violations the traversal has invoked the callback on: those of the
\* whole traversal without the ones still to come
Invoked ==
  SubSeq(reverseDepthFirstTraversal(tree), 1,
         Len(reverseDepthFirstTraversal(tree)) - Len(pending))

\* how many times the callback was invoked on the violation at a position
InvokedOn(position) ==
  Cardinality({i \in 1..Len(Invoked) : Invoked[i] = NodeAt(tree, position).value})

\* C27: when a call that went through the repair pass is over, the traversal
\* has invoked the callback exactly once on every violation that the tree
\* holds.
ExhaustiveTraversal ==
  (validated /\ pc \in {"returned", "raised"}) =>
    \A position \in ValuesIn(tree) : InvokedOn(position) = 1

\* the same for the calls in which no repair step raised
ExhaustiveUnlessRaised ==
  (validated /\ pc \in {"returned", "raised"} /\ thrown \in {"none", "MstError"}
     /\ applied = 2) =>
    \A position \in ValuesIn(tree) : InvokedOn(position) = 1

\* a call of hydrateStore whose first applySnapshot raises an error that is
\* not mobx-state-tree's
FailingStep == pc = "idle" /\ caught' = OtherError

NoPersistenceAfterUnmount ==
  \A i \in 1..Len(setItems) : emitted[setItems[i].of].mounted

\* the same for the providers that were unmounted after the effect had
\* subscribed to the store's snapshots
NoPersistenceAfterLateUnmount ==
  (\E i \in 1..Len(setItems) : ~emitted[setItems[i].of].mounted) =>
    (~mounted /\ listening)

====
